---- MODULE Spec2Model ----
(***************************************************************************)
(* Model of the quota-aware comment collection engine of                   *)
(* PostgresDBwithYouTubeAPI: YouTubeConfig (credential rotation) and       *)
(* YouTubeCommentCollector (thread walk, reply completion, quota ledger).  *)
(* One action is one remote call attempt or one thread item processed.     *)
(***************************************************************************)
EXTENDS Integers, Sequences, FiniteSets, TLC

(* ------------------------------ bounds --------------------------------- *)
MaxKeys == 2         \* YOUTUBE_API_KEY1..YOUTUBE_API_KEY<n> set, n <= MaxKeys
MaxQuotaLimit == 5   \* quota_limit_per_day is drawn from 1..MaxQuotaLimit
MaxRetries == 3      \* max_retries is drawn from 1..MaxRetries
MaxApiCount == 4     \* cap on api_count (it grows without bound in the code)
MaxRecords == 12     \* cap on len(all_comments) (re-fetched pages re-append)

(* ------------------------- the remote service -------------------------- *)
NoKey == 0           \* the empty string '' of os.getenv(..., '')
NoToken == 0         \* nextPageToken absent / None
None == "None"       \* the value of a Python function without return

VideoIds == {"v1", "v2"}

\* the video of the worked example: thread sA with its 3 replies embedded,
\* thread sB with 1 of 4 replies embedded and a reply listing of 3
ScenarioVideo == "v3"

\* a raw reply item of comments().list / of item['replies']['comments']
RawReply(id, parent, likes) ==
    [id |-> id, snippet |-> [parentId |-> parent, likeCount |-> likes]]

\* a raw thread item of commentThreads().list without the 'replies' key
RawThreadBare(id, total, likes) ==
    [id |-> id,
     snippet |-> [totalReplyCount |-> total,
                  topLevelComment |-> [snippet |-> [likeCount |-> likes]]]]

\* a raw thread item that carries embedded replies
RawThread(id, total, likes, embedded) ==
    [id |-> id,
     snippet |-> [totalReplyCount |-> total,
                  topLevelComment |-> [snippet |-> [likeCount |-> likes]]],
     replies |-> [comments |-> embedded]]

\* pages of the thread listing of a video (a page here is a few items, the
\* page size of 100 is scaled down)
ThreadPages(v) ==
    IF v = "v1"
    THEN << << RawThread("A", 3, 2, << RawReply("A1", "A", 1) >>),
               RawThreadBare("B", 0, 0) >>,
            << RawThread("C", 1, 5, << RawReply("C1", "C", 0) >>) >> >>
    ELSE IF v = ScenarioVideo
    THEN << << RawThread("sA", 3, 1, << RawReply("sA1", "sA", 0),
                                        RawReply("sA2", "sA", 2),
                                        RawReply("sA3", "sA", 0) >>),
               RawThread("sB", 4, 0, << RawReply("sB1", "sB", 1) >>) >> >>
    ELSE << << >> >>

\* pages of the reply listing of a parent comment
ReplyPages(parent) ==
    IF parent = "A"
    THEN << << RawReply("A1", "A", 1), RawReply("A2", "A", 0) >>,
            << RawReply("A3", "A", 4) >> >>
    ELSE IF parent = "C" THEN << << RawReply("C1", "C", 0) >> >>
    ELSE IF parent = "sB"
    THEN << << RawReply("sB1", "sB", 1), RawReply("sB2", "sB", 0),
               RawReply("sB3", "sB", 3) >> >>
    ELSE << << >> >>

\* the page a request with the given pageToken returns, and its nextPageToken
PageOf(token) == IF token = NoToken THEN 1 ELSE token
NextToken(pages, k) == IF k < Len(pages) THEN k + 1 ELSE NoToken

ThreadOutcomes == {"ok", "transient", "quotaExceeded", "forbidden"}
ReplyOutcomes == {"ok", "transient", "quotaExceeded", "forbidden", "notFound"}

(* ------------------------------ state ---------------------------------- *)
VARIABLES
    env_keys,            \* number of YOUTUBE_API_KEY<n> variables in the environment
    api_count,           \* YouTubeConfig.api_count
    api_key,             \* YouTubeConfig.api_key (index of the key, NoKey = '')
    quota_limit_per_day, \* YouTubeConfig.quota_limit_per_day
    max_retries,         \* YouTubeConfig.max_retries
    youtube,             \* key the collector's client self.youtube was built with
    quota_usage,         \* YouTubeCommentCollector.quota_usage
    pc,                  \* position of collect_all_comments
    video_id,            \* argument of collect_all_comments
    all_comments,        \* local all_comments of collect_all_comments
    next_page_token,     \* local next_page_token of collect_all_comments
    retry_count,         \* local retry_count of collect_all_comments
    cur_page,            \* page number of the response being processed
    item_idx,            \* index of the item of the for loop (line 190)
    all_replies,         \* local all_replies of get_all_replies
    r_next_page_token,   \* local next_page_token of get_all_replies
    r_retry_count,       \* local retry_count of get_all_replies
    last_call,           \* the most recent remote request issued
    last_rotation,       \* the most recent call of _change_api
    ok_calls,            \* successful remote calls since construction / reset
    quota_fatal,         \* this collection raised "all keys exhausted" with no key left
    full_walks,          \* parents whose reply walk returned the whole listing
    hist,                \* what the most recent step of the collection did
    wf_pc,               \* position of YouTubeWorkflow.process_single_video
    include_comments,    \* options.get('include_comments', True)
    wf_client,           \* key the run's YouTubeAPIClient was built with
    wf_outcome,          \* how the run's get_video_info call ended
    wf_runs,             \* recursive calls of process_single_video so far
    wf_result,           \* what process_single_video returned
    memo,                \* an earlier (list, quota_usage) the caller was given
    client_youtube,      \* key the YouTubeAPIClient's self.youtube was built with
    client_quota_usage,  \* YouTubeAPIClient.quota_usage
    client_hist,         \* what the most recent call on the YouTubeAPIClient did
    an_comments,         \* the list analyze_comment_structure is given
    analysis,            \* what analyze_comment_structure returned last
    an_by,               \* the class whose analyze_comment_structure ran last
    an_calls,            \* calls of analyze_comment_structure on an_comments
    rate_now,            \* time.time(), in ticks
    last_call_time,      \* self.last_call_time of the collector and of the client
    last_issue,          \* when and by which object the last remote call was issued
    spins,               \* passes of "while True" of get_all_replies without attempt
    req_log,             \* the requests answered in this collection, when recorded
    kept_run             \* the video, requests and list of an earlier collection

cfg_vars == << env_keys, api_count, api_key, quota_limit_per_day, max_retries >>
walk_vars == << pc, video_id, all_comments, next_page_token, retry_count,
                cur_page, item_idx >>
reply_vars == << all_replies, r_next_page_token, r_retry_count >>
vars == << env_keys, api_count, api_key, quota_limit_per_day, max_retries,
           youtube, quota_usage, pc, video_id, all_comments, next_page_token,
           retry_count, cur_page, item_idx, all_replies, r_next_page_token,
           r_retry_count, last_call, last_rotation, ok_calls, quota_fatal,
           full_walks, hist, wf_pc, include_comments, wf_client, wf_outcome,
           wf_runs, wf_result, memo, client_youtube, client_quota_usage,
           client_hist, an_comments, analysis, an_by, an_calls, rate_now,
           last_call_time, last_issue, spins, req_log, kept_run >>
wf_vars == << wf_pc, include_comments, wf_client, wf_outcome, wf_runs,
              wf_result >>
client_vars == << client_youtube, client_quota_usage, client_hist >>
analyzer_vars == << an_comments, analysis, an_by, an_calls >>
rate_vars == << rate_now, last_call_time, last_issue >>

NoCall == [endpoint |-> "none", target |-> "", token |-> NoToken,
           client |-> NoKey, cfg_key |-> NoKey, usage_before |-> 0,
           limit |-> 0, embedded |-> 0, total |-> 0, outcome |-> "none"]
NoRotation == [found |-> FALSE, ret |-> None, via |-> "none", from |-> 0]

\* the record of a step: where the collection stood (at), how the attempt
\* ended (event), the argument of time.sleep (slept, 0 = no sleep), the
\* consecutive transient failures of the request (streak) and the thread
\* pages whose for loop ran to its end (pages_done)
Hist(at, event, slept, streak, pages_done) ==
    [at |-> at, event |-> event, slept |-> slept, streak |-> streak,
     pages_done |-> pages_done]
NoHist == Hist("idle", "none", 0, 0, 0)

\* the record of a call on the YouTubeAPIClient: the method, how the attempt
\* ended (event), the config's api_count when it was made and the number of
\* calls made on this client so far
ClientHist(method, event, count, calls) ==
    [method |-> method, event |-> event, api_count |-> count, calls |-> calls]
NoClientHist == ClientHist("none", "none", 0, 0)

\* what time.time() returns when the process starts, in ticks
ProcessStart == 10

\* the objects that make remote calls, each with its own last_call_time
Callers == {"collector", "client"}

\* no remote call issued yet
NoIssue == [at |-> 0, by |-> "none", gap |-> 0, calls |-> 0]

\* the clock and the rate limiters before any object was constructed
IdleRate ==
    /\ rate_now = ProcessStart
    /\ last_call_time = [o \in Callers |-> 0]
    /\ last_issue = NoIssue

\* the request log: whether requests are recorded, and the requests answered
\* successfully since the collection was entered
NoLog == [on |-> FALSE, reqs |-> << >>]

\* no collection kept
NoRun == [kept |-> FALSE, by |-> "none", video |-> "", reqs |-> << >>,
          list |-> << >>]

\* the fixed parameters YouTubeCommentCollector gives a list request
\* (lines 175-181 and 108-113)
RequestParams(endpoint) ==
    IF endpoint = "commentThreads"
    THEN [part |-> "snippet,replies", maxResults |-> 100, order |-> "time"]
    ELSE [part |-> "snippet", maxResults |-> 100, order |-> None]

\* the fixed parameters CompleteCommentCollector gives a request
\* (comments.py lines 86-92 and 38-43)
CCC_RequestParams(endpoint) ==
    IF endpoint = "commentThreads"
    THEN [part |-> "snippet,replies", maxResults |-> 100, order |-> "time"]
    ELSE [part |-> "snippet", maxResults |-> 100, order |-> None]

\* the steps of CompleteCommentCollector
CCC_Steps == {"ccc_fetch_page", "ccc_process_items", "ccc_fetch_replies"}

\* a request as the service sees it: endpoint, videoId or parentId,
\* pageToken and the fixed parameters
Request(call, params) ==
    [endpoint |-> call.endpoint, target |-> call.target, token |-> call.token,
     params |-> params]

\* req_log after a step of a collector: emptied when a collection is
\* entered, extended by the request the step issued
Logged ==
    IF ~req_log.on THEN req_log
    ELSE IF hist'.event = "start" THEN [req_log EXCEPT !.reqs = << >>]
    ELSE IF /\ pc \in {"fetch_page", "fetch_replies", "ccc_fetch_page",
                       "ccc_fetch_replies"}
            /\ hist'.event # "pre_check"
    THEN [req_log EXCEPT
            !.reqs = Append(@, Request(last_call',
                                       IF pc \in CCC_Steps
                                       THEN CCC_RequestParams(last_call'.endpoint)
                                       ELSE RequestParams(last_call'.endpoint)))]
    ELSE req_log

\* analyze_comment_structure has not returned anything yet
NoAnalysis == [returned |-> FALSE]

\* no observation kept yet
NoMemo == [kept |-> FALSE, list |-> << >>, usage |-> 0, cut |-> FALSE]

(* --------------------------- YouTubeConfig ----------------------------- *)
\* os.getenv('YOUTUBE_API_KEY' + str(n), '')
Getenv(n) == IF n \in 1..env_keys THEN n ELSE NoKey

\* a rotation that goes back to the first credential when the next index
\* holds none
_change_api_WrapAround(count) ==
    IF Getenv(count + 1) = NoKey
    THEN [api_count |-> 1, api_key |-> Getenv(1), ret |-> None]
    ELSE [api_count |-> count + 1, api_key |-> Getenv(count + 1), ret |-> None]

\* YouTubeConfig._change_api: the new api_count, the new api_key and the
\* value the call evaluates to (the method has no return statement)
_change_api(count) ==
    [api_count |-> count + 1, api_key |-> Getenv(count + 1), ret |-> None]

\* truth value of a Python object in "if x:" (values: "True", "False", None)
Truthy(x) == x = "True"


(* ---------------------- YouTubeCommentCollector ------------------------ *)
\* the collector's ledger and client, threaded through one call attempt
Self == [quota_usage |-> quota_usage, youtube |-> youtube,
         api_count |-> api_count, api_key |-> api_key]

\* the test of line 40 letting one call too many through
OverBudget_OffByOne(usage, cost, limit) == usage + cost > limit + 1

\* the test of line 40
OverBudget(usage, cost, limit) == usage + cost > limit

\* _check_quota(cost) run on s: the state it leaves, whether it raised, and
\* whether / how it rotated
_check_quota(s, cost) ==
    IF OverBudget(s.quota_usage, cost, quota_limit_per_day)
    THEN LET c == _change_api(s.api_count) IN
         IF Truthy(c.ret)
         THEN [s |-> [quota_usage |-> 0, youtube |-> c.api_key,
                      api_count |-> c.api_count, api_key |-> c.api_key],
               raised |-> FALSE, rotated |-> TRUE, reset |-> TRUE]
         ELSE [s |-> [quota_usage |-> s.quota_usage, youtube |-> s.youtube,
                      api_count |-> c.api_count, api_key |-> c.api_key],
               raised |-> TRUE, rotated |-> TRUE, reset |-> FALSE]
    ELSE [s |-> s, raised |-> FALSE, rotated |-> FALSE, reset |-> FALSE]

\* a handler that raises on every 403
_handle_api_error_RaiseOn403(s, outcome) ==
    IF outcome \in {"quotaExceeded", "forbidden"}
    THEN [s |-> s, ret |-> FALSE, raised |-> TRUE, rotated |-> FALSE,
          reset |-> FALSE]
    ELSE [s |-> s, ret |-> FALSE, raised |-> FALSE, rotated |-> FALSE,
          reset |-> FALSE]

\* _handle_api_error(error, operation) run on s for an HttpError whose status
\* and reason are given by the outcome: the state it leaves, its return value
\* (TRUE = retry) and whether it raised
_handle_api_error(s, outcome) ==
    IF outcome \in {"quotaExceeded", "forbidden"}        \* status == 403
    THEN IF outcome = "quotaExceeded"
         THEN LET c == _change_api(s.api_count) IN
              IF Truthy(c.ret)
              THEN [s |-> [quota_usage |-> 0, youtube |-> c.api_key,
                           api_count |-> c.api_count, api_key |-> c.api_key],
                    ret |-> TRUE, raised |-> FALSE, rotated |-> TRUE,
                    reset |-> TRUE]
              ELSE [s |-> [quota_usage |-> s.quota_usage, youtube |-> s.youtube,
                           api_count |-> c.api_count, api_key |-> c.api_key],
                    ret |-> FALSE, raised |-> TRUE, rotated |-> TRUE,
                    reset |-> FALSE]
         ELSE [s |-> s, ret |-> FALSE, raised |-> FALSE, rotated |-> FALSE,
               reset |-> FALSE]
    ELSE [s |-> s, ret |-> FALSE, raised |-> FALSE, rotated |-> FALSE,
          reset |-> FALSE]

\* an extraction that drops the parent of a reply
extract_comment_data_NoParent(item, vid, is_reply, parent_id) ==
    LET snippet == IF is_reply THEN item.snippet
                   ELSE item.snippet.topLevelComment.snippet
    IN [comment_id |-> item.id,
        video_id |-> vid,
        like_count |-> snippet.likeCount,
        reply_count |-> IF ~is_reply
                        THEN (IF "totalReplyCount" \in DOMAIN item.snippet
                              THEN item.snippet.totalReplyCount ELSE 0)
                        ELSE 0,
        is_reply |-> is_reply,
        parent_id |-> "",
        reply_depth |-> 0]

\* extract_comment_data (the author, text and timestamp fields are plain
\* copies of the snippet and are left out)
extract_comment_data(item, vid, is_reply, parent_id) ==
    LET snippet == IF is_reply THEN item.snippet
                   ELSE item.snippet.topLevelComment.snippet
    IN [comment_id |-> item.id,
        video_id |-> vid,
        like_count |-> snippet.likeCount,
        reply_count |-> IF ~is_reply
                        THEN (IF "totalReplyCount" \in DOMAIN item.snippet
                              THEN item.snippet.totalReplyCount ELSE 0)
                        ELSE 0,
        is_reply |-> is_reply,
        parent_id |-> parent_id,
        reply_depth |-> IF is_reply /\ parent_id # "" THEN 1 ELSE 0]

\* lines 199-206: the records of the replies embedded in a thread item
api_replies(item, vid) ==
    IF "replies" \in DOMAIN item
    THEN [i \in 1..Len(item.replies.comments) |->
            extract_comment_data(item.replies.comments[i], vid, TRUE, item.id)]
    ELSE << >>

\* the embedded replies appended before their top-level comment
item_records_RepliesFirst(top_comment, embedded) ==
    embedded \o << top_comment >>

\* lines 191-206: what one thread item appends, the top-level record and then
\* the embedded replies
item_records(top_comment, embedded) == << top_comment >> \o embedded

\* the test of line 210 with >= in place of >
NeedsCompletion_AtLeast(total_reply_count, embedded) ==
    total_reply_count >= embedded

\* the test of line 210
NeedsCompletion(total_reply_count, embedded) == total_reply_count > embedded

\* a merge that keeps every reply of the standalone walk
new_replies_NoFilter(complete_replies, embedded) == complete_replies

\* lines 218-219: the replies of the standalone walk that were not embedded
new_replies(complete_replies, embedded) ==
    LET api_reply_ids == {embedded[i].comment_id : i \in 1..Len(embedded)}
    IN SelectSeq(complete_replies, LAMBDA r : r.comment_id \notin api_reply_ids)

\* a 404 of the replies endpoint dropping the replies gathered so far
NotFoundReplies_Empty(replies) == << >>

\* lines 136-138: what get_all_replies returns on status 404
NotFoundReplies(replies) == replies

\* lines 120-123: the records of one page of the reply listing
reply_page_records(parent, k, vid) ==
    LET page == ReplyPages(parent)[k]
    IN [i \in 1..Len(page) |-> extract_comment_data(page[i], vid, TRUE, parent)]

\* a successful list call charged twice
Charge_Twice(usage) == usage + 2

\* the quota charge of a successful list call (lines 116, 185)
Charge(usage) == usage + 1

Items(vid, page) == ThreadPages(vid)[page]

\* 1 when item idx is the last of the page (the for loop ends after it)
Ended(vid, page, idx) == IF idx >= Len(Items(vid, page)) THEN 1 ELSE 0

\* YouTubeConfig.retry_delay
retry_delay == 1

\* the sleep of lines 154 / 260 with a fixed delay
Backoff_Constant(k) == retry_delay

\* the argument of time.sleep at lines 154 / 260 after the k-th failure
Backoff(k) == retry_delay * k

\* lines 148-154 / 254-260 entered with retry counter rc: the sleep made (none
\* when the counter reaches max_retries)
Sleep(rc) == IF rc + 1 >= max_retries THEN 0 ELSE Backoff(rc + 1)

\* line 263 after the retry loop was left: leave the page loop or go round
OuterCheck(npt, rc, page, idx) ==
    IF npt = NoToken \/ rc >= max_retries
    THEN [pc |-> "returned", next_page_token |-> npt, retry_count |-> rc,
          cur_page |-> page, item_idx |-> idx]
    ELSE [pc |-> "fetch_page", next_page_token |-> npt, retry_count |-> 0,
          cur_page |-> page, item_idx |-> idx]

\* a page end that leaves the cursor as it was
PageEnd_KeepToken(rc, page, idx) ==
    OuterCheck(next_page_token, rc, page, idx)

\* lines 233-242: the for loop over the items is over
PageEnd(rc, page, idx) ==
    OuterCheck(NextToken(ThreadPages(video_id), page), rc, page, idx)

\* the for loop of line 190 after item idx of the page: next item or page end
AfterItem(npt, rc, page, idx) ==
    IF idx < Len(Items(video_id, page))
    THEN [pc |-> "process_items", next_page_token |-> npt, retry_count |-> rc,
          cur_page |-> page, item_idx |-> idx + 1]
    ELSE PageEnd(rc, page, idx)

\* a handler that starts the walk over from the first page
OnException_Restart(npt, rc, page, idx) ==
    IF rc + 1 >= max_retries
    THEN [pc |-> "returned", next_page_token |-> NoToken,
          retry_count |-> rc + 1, cur_page |-> page, item_idx |-> idx]
    ELSE [pc |-> "fetch_page", next_page_token |-> NoToken,
          retry_count |-> rc + 1, cur_page |-> page, item_idx |-> idx]

\* a handler that raises once the retries are used up
OnException_Raise(npt, rc, page, idx) ==
    [pc |-> IF rc + 1 >= max_retries THEN "raised" ELSE "fetch_page",
     next_page_token |-> npt, retry_count |-> rc + 1, cur_page |-> page,
     item_idx |-> idx]

\* lines 253-260: except Exception of collect_all_comments
OnException(npt, rc, page, idx) ==
    IF rc + 1 >= max_retries
    THEN OuterCheck(npt, rc + 1, page, idx)
    ELSE [pc |-> "fetch_page", next_page_token |-> npt, retry_count |-> rc + 1,
          cur_page |-> page, item_idx |-> idx]

\* lines 245-248: retry_count += 1; continue (the while test of line 171)
OnRotatedRetry(npt, rc, page, idx) ==
    IF rc + 1 < max_retries
    THEN [pc |-> "fetch_page", next_page_token |-> npt, retry_count |-> rc + 1,
          cur_page |-> page, item_idx |-> idx]
    ELSE OuterCheck(npt, rc + 1, page, idx)

SetWalk(c) ==
    /\ pc' = c.pc
    /\ next_page_token' = c.next_page_token
    /\ retry_count' = c.retry_count
    /\ cur_page' = c.cur_page
    /\ item_idx' = c.item_idx

SetSelf(s) ==
    /\ quota_usage' = s.quota_usage
    /\ youtube' = s.youtube
    /\ api_count' = s.api_count
    /\ api_key' = s.api_key


\* what a call of _change_api made from count leaves in last_rotation
Rotation(count, via) ==
    [found |-> Getenv(count + 1) # NoKey, ret |-> _change_api(count).ret,
     via |-> via, from |-> count]

Walk == [pc |-> pc, next_page_token |-> next_page_token,
         retry_count |-> retry_count, cur_page |-> cur_page,
         item_idx |-> item_idx]

(* ------------------------------ actions -------------------------------- *)
Init ==
    /\ env_keys \in 1..MaxKeys
    /\ api_count = 1
    /\ api_key = (IF 1 <= env_keys THEN 1 ELSE NoKey)
    /\ quota_limit_per_day \in 1..MaxQuotaLimit
    /\ max_retries \in 1..MaxRetries
    /\ youtube = api_key
    /\ quota_usage = 0
    /\ pc = "idle"
    /\ video_id = "v1"
    /\ all_comments = << >>
    /\ next_page_token = NoToken
    /\ retry_count = 0
    /\ cur_page = 1
    /\ item_idx = 1
    /\ all_replies = << >>
    /\ r_next_page_token = NoToken
    /\ r_retry_count = 0
    /\ last_call = NoCall
    /\ last_rotation = NoRotation
    /\ ok_calls = 0
    /\ quota_fatal = FALSE
    /\ full_walks = {}
    /\ hist = NoHist
    /\ wf_pc = "idle"
    /\ include_comments = TRUE
    /\ wf_client = NoKey
    /\ wf_outcome = "none"
    /\ wf_runs = 0
    /\ wf_result = "none"
    /\ memo = NoMemo
    /\ client_youtube = NoKey
    /\ client_quota_usage = 0
    /\ client_hist = NoClientHist
    /\ an_comments = << >>
    /\ analysis = NoAnalysis
    /\ an_by = "none"
    /\ an_calls = 0
    /\ IdleRate
    /\ spins = 0
    /\ req_log = NoLog
    /\ kept_run = NoRun

\* YouTubeCommentCollector.__init__ on the shared config (the factory builds
\* a collector per video)
NewCollector ==
    /\ pc = "idle"
    /\ wf_pc = "idle"
    /\ UNCHANGED << wf_vars, memo, client_vars, analyzer_vars, rate_vars,
                    spins, kept_run >>
    /\ youtube' = api_key
    /\ quota_usage' = 0
    /\ ok_calls' = 0
    /\ last_call' = NoCall
    /\ UNCHANGED << cfg_vars, walk_vars, reply_vars, last_rotation, quota_fatal,
                    full_walks, hist >>
    /\ req_log' = Logged

\* collect_all_comments(video_id) is entered: lines 162-170
StartCollect ==
    /\ pc = "idle"
    /\ wf_pc = "idle"
    /\ UNCHANGED << wf_vars, memo, client_vars, analyzer_vars, rate_vars,
                    spins, kept_run >>
    /\ \E v \in VideoIds :
        /\ video_id' = v
        /\ all_comments' = << >>
        /\ SetWalk(IF 0 < max_retries
                   THEN [pc |-> "fetch_page", next_page_token |-> NoToken,
                         retry_count |-> 0, cur_page |-> 1, item_idx |-> 1]
                   ELSE OuterCheck(NoToken, 0, 1, 1))
    /\ all_replies' = << >>
    /\ r_next_page_token' = NoToken
    /\ r_retry_count' = 0
    /\ quota_fatal' = FALSE
    /\ full_walks' = {}
    /\ hist' = Hist("idle", "start", 0, 0, 0)
    /\ UNCHANGED << cfg_vars, youtube, quota_usage, last_call, last_rotation,
                    ok_calls >>
    /\ req_log' = Logged

\* one pass of the retry loop of collect_all_comments up to the for loop:
\* lines 171-188 and the handlers of lines 244-260
FetchThreadPage ==
    /\ pc = "fetch_page"
    /\ UNCHANGED << wf_vars, memo, client_vars, analyzer_vars, rate_vars,
                    spins, kept_run >>
    /\ \E outcome \in ThreadOutcomes :
        LET q == _check_quota(Self, 1)
            h == _handle_api_error(q.s, outcome)
            page == PageOf(next_page_token)
            call == [endpoint |-> "commentThreads", target |-> video_id,
                     token |-> next_page_token, client |-> q.s.youtube,
                     cfg_key |-> q.s.api_key,
                     usage_before |-> q.s.quota_usage,
                     limit |-> quota_limit_per_day, embedded |-> 0,
                     total |-> 0, outcome |-> outcome]
            rot1 == IF q.rotated THEN Rotation(api_count, "pre_check")
                    ELSE last_rotation
        IN
        IF q.raised
        THEN \* the pre-check's exception is caught at line 253
             /\ SetSelf(q.s)
             /\ SetWalk(OnException(next_page_token, retry_count, cur_page,
                                    item_idx))
             /\ last_rotation' = rot1
             /\ quota_fatal' = (quota_fatal \/ q.s.api_key = NoKey)
             /\ hist' = Hist(pc, "pre_check", Sleep(retry_count), 0,
                             hist.pages_done)
             /\ UNCHANGED << last_call, ok_calls >>
        ELSE
             /\ last_call' = call
             /\ IF outcome = "ok"
                THEN /\ SetSelf([q.s EXCEPT !.quota_usage = Charge(@)])
                     /\ ok_calls' = (IF q.reset THEN 0 ELSE ok_calls) + 1
                     /\ SetWalk(IF Len(Items(video_id, page)) > 0
                                THEN [pc |-> "process_items",
                                      next_page_token |-> next_page_token,
                                      retry_count |-> retry_count,
                                      cur_page |-> page, item_idx |-> 1]
                                ELSE PageEnd(retry_count, page, item_idx))
                     /\ last_rotation' = rot1
                     /\ hist' = Hist(pc, "ok", 0, 0,
                                     hist.pages_done
                                       + (IF Len(Items(video_id, page)) > 0
                                          THEN 0 ELSE 1))
                     /\ UNCHANGED quota_fatal
                ELSE IF outcome = "transient"
                THEN /\ SetSelf(q.s)
                     /\ ok_calls' = (IF q.reset THEN 0 ELSE ok_calls)
                     /\ SetWalk(OnException(next_page_token, retry_count,
                                            cur_page, item_idx))
                     /\ last_rotation' = rot1
                     /\ hist' = Hist(pc, "transient", Sleep(retry_count),
                                     hist.streak + 1, hist.pages_done)
                     /\ UNCHANGED quota_fatal
                ELSE \* except HttpError, line 244
                     /\ SetSelf(h.s)
                     /\ ok_calls' = (IF q.reset \/ h.reset THEN 0 ELSE ok_calls)
                     /\ last_rotation' =
                          (IF h.rotated
                           THEN Rotation(q.s.api_count, "api_error") ELSE rot1)
                     /\ quota_fatal' =
                          (quota_fatal \/ (h.raised /\ h.s.api_key = NoKey))
                     /\ hist' = Hist(pc, outcome, 0, 0, hist.pages_done)
                     /\ SetWalk(IF h.raised
                                THEN [Walk EXCEPT !.pc = "raised"]
                                ELSE IF h.ret
                                THEN OnRotatedRetry(next_page_token, retry_count,
                                                    cur_page, item_idx)
                                ELSE OuterCheck(next_page_token, retry_count,
                                                cur_page, item_idx))
    /\ api_count' <= MaxApiCount
    /\ UNCHANGED << env_keys, quota_limit_per_day, max_retries, video_id,
                    all_comments, reply_vars, full_walks >>
    /\ req_log' = Logged

\* one iteration of the for loop of line 190 up to the call of
\* get_all_replies (lines 191-215), or up to its end when no call is made
ProcessItem ==
    /\ pc = "process_items"
    /\ UNCHANGED << wf_vars, memo, client_vars, analyzer_vars, rate_vars,
                    spins, kept_run >>
    /\ LET item == Items(video_id, cur_page)[item_idx]
           top_comment == extract_comment_data(item, video_id, FALSE, "")
           embedded == api_replies(item, video_id)
       IN
       /\ all_comments' = all_comments \o item_records(top_comment, embedded)
       /\ Len(all_comments') <= MaxRecords
       /\ IF NeedsCompletion(item.snippet.totalReplyCount, Len(embedded))
          THEN /\ pc' = "fetch_replies"
               /\ all_replies' = << >>
               /\ r_next_page_token' = NoToken
               /\ r_retry_count' = 0
               /\ hist' = Hist(pc, "item", 0, 0, hist.pages_done)
               /\ UNCHANGED << next_page_token, retry_count, cur_page, item_idx >>
          ELSE /\ SetWalk(AfterItem(next_page_token, retry_count, cur_page,
                                    item_idx))
               /\ hist' = Hist(pc, "item", 0, 0,
                               hist.pages_done
                                 + Ended(video_id, cur_page, item_idx))
               /\ UNCHANGED reply_vars
    /\ UNCHANGED << cfg_vars, youtube, quota_usage, video_id, last_call,
                    last_rotation, ok_calls, quota_fatal, full_walks >>
    /\ req_log' = Logged

\* lines 215-226 once get_all_replies returned complete_replies
MergeReplies(complete_replies) ==
    LET item == Items(video_id, cur_page)[item_idx]
    IN /\ all_comments' =
            all_comments \o new_replies(complete_replies,
                                        api_replies(item, video_id))
       /\ Len(all_comments') <= MaxRecords
       /\ SetWalk(AfterItem(next_page_token, retry_count, cur_page, item_idx))

\* one pass of the retry loop of get_all_replies (lines 103-154), with what
\* collect_all_comments does when it returns or raises
FetchReplyPage ==
    /\ pc = "fetch_replies"
    /\ UNCHANGED << wf_vars, memo, client_vars, analyzer_vars, rate_vars,
                    spins, kept_run >>
    /\ \E outcome \in ReplyOutcomes :
        LET item == Items(video_id, cur_page)[item_idx]
            parent_id == item.id
            q == _check_quota(Self, 1)
            h == _handle_api_error(q.s, outcome)
            page == PageOf(r_next_page_token)
            call == [endpoint |-> "comments", target |-> parent_id,
                     token |-> r_next_page_token, client |-> q.s.youtube,
                     cfg_key |-> q.s.api_key,
                     usage_before |-> q.s.quota_usage,
                     limit |-> quota_limit_per_day,
                     embedded |-> Len(api_replies(item, video_id)),
                     total |-> item.snippet.totalReplyCount,
                     outcome |-> outcome]
            rot1 == IF q.rotated THEN Rotation(api_count, "pre_check")
                    ELSE last_rotation
            \* except Exception of get_all_replies, lines 147-154
            ended == Ended(video_id, cur_page, item_idx)
            Transient(event, streak) ==
                IF r_retry_count + 1 >= max_retries
                THEN /\ MergeReplies(all_replies)
                     /\ hist' = Hist(pc, event, 0, streak,
                                     hist.pages_done + ended)
                     /\ UNCHANGED reply_vars
                ELSE /\ r_retry_count' = r_retry_count + 1
                     /\ hist' = Hist(pc, event, Sleep(r_retry_count), streak,
                                     hist.pages_done)
                     /\ UNCHANGED << all_replies, r_next_page_token,
                                     all_comments, walk_vars >>
        IN
        /\ full_walks' =
             (IF ~q.raised /\ outcome = "ok"
                 /\ NextToken(ReplyPages(parent_id), page) = NoToken
              THEN full_walks \cup {parent_id} ELSE full_walks)
        /\ IF q.raised
           THEN \* the pre-check's exception is caught at line 147
                /\ SetSelf(q.s)
                /\ Transient("pre_check", 0)
                /\ last_rotation' = rot1
                /\ quota_fatal' = (quota_fatal \/ q.s.api_key = NoKey)
                /\ UNCHANGED << last_call, ok_calls >>
           ELSE
                /\ last_call' = call
                /\ IF outcome = "ok"
                   THEN LET replies == all_replies
                                       \o reply_page_records(parent_id, page, video_id)
                            token == NextToken(ReplyPages(parent_id), page)
                        IN
                        /\ SetSelf([q.s EXCEPT !.quota_usage = Charge(@)])
                        /\ ok_calls' = (IF q.reset THEN 0 ELSE ok_calls) + 1
                        /\ last_rotation' = rot1
                        /\ UNCHANGED quota_fatal
                        /\ IF token = NoToken
                           THEN /\ MergeReplies(replies)     \* line 132
                                /\ hist' = Hist(pc, "ok", 0, 0,
                                                hist.pages_done + ended)
                                /\ UNCHANGED reply_vars
                           ELSE /\ all_replies' = replies    \* line 133
                                /\ r_next_page_token' = token
                                /\ r_retry_count' = 0
                                /\ hist' = Hist(pc, "ok", 0, 0, hist.pages_done)
                                /\ UNCHANGED << all_comments, walk_vars >>
                   ELSE IF outcome = "transient"
                   THEN /\ SetSelf(q.s)
                        /\ ok_calls' = (IF q.reset THEN 0 ELSE ok_calls)
                        /\ Transient("transient", hist.streak + 1)
                        /\ last_rotation' = rot1
                        /\ UNCHANGED quota_fatal
                   ELSE IF outcome = "notFound"
                   THEN \* status 404, line 136
                        /\ SetSelf(q.s)
                        /\ ok_calls' = (IF q.reset THEN 0 ELSE ok_calls)
                        /\ MergeReplies(NotFoundReplies(all_replies))
                        /\ hist' = Hist(pc, "notFound", 0, 0,
                                        hist.pages_done + ended)
                        /\ last_rotation' = rot1
                        /\ UNCHANGED << reply_vars, quota_fatal >>
                   ELSE \* line 139
                        /\ SetSelf(h.s)
                        /\ ok_calls' = (IF q.reset \/ h.reset THEN 0 ELSE ok_calls)
                        /\ last_rotation' =
                             (IF h.rotated
                              THEN Rotation(q.s.api_count, "api_error") ELSE rot1)
                        /\ quota_fatal' =
                             (quota_fatal \/ (h.raised /\ h.s.api_key = NoKey))
                        /\ IF h.raised
                           THEN \* the exception leaves get_all_replies and is
                                \* caught at line 253 of collect_all_comments
                                /\ SetWalk(OnException(next_page_token, retry_count,
                                                       cur_page, item_idx))
                                /\ hist' = Hist(pc, outcome, Sleep(retry_count),
                                                0, hist.pages_done)
                                /\ UNCHANGED << all_comments, reply_vars >>
                           ELSE IF h.ret
                           THEN \* retry_count += 1; continue (lines 141-142)
                                /\ r_retry_count' =
                                     (IF r_retry_count + 1 < max_retries
                                      THEN r_retry_count + 1 ELSE 0)
                                /\ hist' = Hist(pc, outcome, 0, 0,
                                                hist.pages_done)
                                /\ UNCHANGED << all_replies, r_next_page_token,
                                                all_comments, walk_vars >>
                           ELSE \* line 145
                                /\ MergeReplies(all_replies)
                                /\ hist' = Hist(pc, outcome, 0, 0,
                                                hist.pages_done + ended)
                                /\ UNCHANGED reply_vars
    /\ api_count' <= MaxApiCount
    /\ UNCHANGED << env_keys, quota_limit_per_day, max_retries, video_id >>
    /\ req_log' = Logged

\* the caller takes the returned list (or the exception)
Finish ==
    /\ pc \in {"returned", "raised"}
    /\ UNCHANGED << wf_vars, memo, client_vars, analyzer_vars, rate_vars,
                    spins, kept_run >>
    /\ all_comments' = << >>
    /\ SetWalk([pc |-> "idle", next_page_token |-> NoToken, retry_count |-> 0,
                cur_page |-> 1, item_idx |-> 1])
    /\ all_replies' = << >>
    /\ r_next_page_token' = NoToken
    /\ r_retry_count' = 0
    /\ full_walks' = {}
    /\ video_id' = "v1"
    /\ hist' = NoHist
    /\ UNCHANGED << cfg_vars, youtube, quota_usage, last_call, last_rotation,
                    ok_calls, quota_fatal >>
    /\ req_log' = Logged

(* -------------------- comments.py: CompleteCommentCollector ------------- *)
\* the api_key the stand-alone collector of comments.py was constructed with
CCC_api_key == 1

CCC_ThreadOutcomes == {"ok", "transient", "forbidden"}
CCC_ReplyOutcomes == {"ok", "transient", "forbidden", "notFound"}

\* CompleteCommentCollector.extract_comment_data (copied fields left out)
CCC_extract_comment_data(item, vid, is_reply, parent_id) ==
    LET snippet == IF is_reply THEN item.snippet
                   ELSE item.snippet.topLevelComment.snippet
    IN [comment_id |-> item.id,
        video_id |-> vid,
        like_count |-> snippet.likeCount,
        reply_count |-> IF ~is_reply
                        THEN (IF "totalReplyCount" \in DOMAIN item.snippet
                              THEN item.snippet.totalReplyCount ELSE 0)
                        ELSE 0,
        is_reply |-> is_reply,
        parent_id |-> parent_id,
        reply_depth |-> IF is_reply /\ parent_id # "" THEN 1 ELSE 0]

\* comments.py lines 115-121
CCC_api_replies(item, vid) ==
    IF "replies" \in DOMAIN item
    THEN [i \in 1..Len(item.replies.comments) |->
            CCC_extract_comment_data(item.replies.comments[i], vid, TRUE,
                                     item.id)]
    ELSE << >>

\* the test of comments.py line 125
CCC_NeedsCompletion(total_reply_count, embedded) == total_reply_count > embedded

\* a merge that keeps the replies the thread item already carried
CCC_new_replies_NoFilter(complete_replies, embedded) == complete_replies

\* comments.py lines 132-133
CCC_new_replies(complete_replies, embedded) ==
    LET api_reply_ids == {embedded[i].comment_id : i \in 1..Len(embedded)}
    IN SelectSeq(complete_replies, LAMBDA r : r.comment_id \notin api_reply_ids)

\* comments.py lines 143-146 after the for loop: next page or leave the loop
CCC_PageEnd(page, idx) ==
    LET token == NextToken(ThreadPages(video_id), page)
    IN [pc |-> IF token = NoToken THEN "returned" ELSE "ccc_fetch_page",
        next_page_token |-> token, retry_count |-> retry_count,
        cur_page |-> page, item_idx |-> idx]

CCC_AfterItem(page, idx) ==
    IF idx < Len(Items(video_id, page))
    THEN [pc |-> "ccc_process_items", next_page_token |-> next_page_token,
          retry_count |-> retry_count, cur_page |-> page, item_idx |-> idx + 1]
    ELSE CCC_PageEnd(page, idx)

\* collect_complete_comments(video_id) is entered: comments.py lines 80-84
CCC_StartCollect ==
    /\ pc = "idle"
    /\ wf_pc = "idle"
    /\ UNCHANGED << wf_vars, memo, client_vars, analyzer_vars, rate_vars,
                    spins, kept_run >>
    /\ \E v \in VideoIds :
        /\ video_id' = v
        /\ all_comments' = << >>
        /\ SetWalk([pc |-> "ccc_fetch_page", next_page_token |-> NoToken,
                    retry_count |-> 0, cur_page |-> 1, item_idx |-> 1])
    /\ all_replies' = << >>
    /\ r_next_page_token' = NoToken
    /\ r_retry_count' = 0
    /\ quota_fatal' = FALSE
    /\ full_walks' = {}
    /\ hist' = Hist("idle", "start", 0, 0, 0)
    /\ UNCHANGED << cfg_vars, youtube, quota_usage, last_call, last_rotation,
                    ok_calls >>
    /\ req_log' = Logged

\* one thread-page request of collect_complete_comments: lines 86-106, 148-150
CCC_FetchThreadPage ==
    /\ pc = "ccc_fetch_page"
    /\ UNCHANGED << wf_vars, memo, client_vars, analyzer_vars, rate_vars,
                    spins, kept_run >>
    /\ \E outcome \in CCC_ThreadOutcomes :
        LET page == PageOf(next_page_token)
        IN /\ last_call' = [endpoint |-> "commentThreads", target |-> video_id,
                            token |-> next_page_token, client |-> CCC_api_key,
                            cfg_key |-> CCC_api_key, usage_before |-> 0,
                            limit |-> 1, embedded |-> 0, total |-> 0,
                            outcome |-> outcome]
           /\ IF outcome = "ok"
              THEN /\ SetWalk(IF Len(Items(video_id, page)) > 0
                              THEN [pc |-> "ccc_process_items",
                                    next_page_token |-> next_page_token,
                                    retry_count |-> retry_count,
                                    cur_page |-> page, item_idx |-> 1]
                              ELSE CCC_PageEnd(page, item_idx))
                   /\ hist' = Hist(pc, "ok", 0, 0,
                                   hist.pages_done
                                     + (IF Len(Items(video_id, page)) > 0
                                        THEN 0 ELSE 1))
              ELSE \* status != 200 (line 100) or an exception (line 148): break
                   /\ SetWalk([Walk EXCEPT !.pc = "returned"])
                   /\ hist' = Hist(pc, outcome, 0, 0, hist.pages_done)
    /\ UNCHANGED << cfg_vars, youtube, quota_usage, video_id, all_comments,
                    reply_vars, last_rotation, ok_calls, quota_fatal,
                    full_walks >>
    /\ req_log' = Logged

\* one iteration of the for loop of comments.py line 108 up to the call of
\* get_all_replies, or up to its end when no call is made
CCC_ProcessItem ==
    /\ pc = "ccc_process_items"
    /\ UNCHANGED << wf_vars, memo, client_vars, analyzer_vars, rate_vars,
                    spins, kept_run >>
    /\ LET item == Items(video_id, cur_page)[item_idx]
           top_comment == CCC_extract_comment_data(item, video_id, FALSE, "")
           embedded == CCC_api_replies(item, video_id)
       IN
       /\ all_comments' = all_comments \o << top_comment >> \o embedded
       /\ IF CCC_NeedsCompletion(item.snippet.totalReplyCount, Len(embedded))
          THEN /\ pc' = "ccc_fetch_replies"
               /\ all_replies' = << >>
               /\ r_next_page_token' = NoToken
               /\ hist' = Hist(pc, "item", 0, 0, hist.pages_done)
               /\ UNCHANGED << next_page_token, retry_count, cur_page, item_idx,
                               r_retry_count >>
          ELSE /\ SetWalk(CCC_AfterItem(cur_page, item_idx))
               /\ hist' = Hist(pc, "item", 0, 0,
                               hist.pages_done
                                 + Ended(video_id, cur_page, item_idx))
               /\ UNCHANGED reply_vars
    /\ UNCHANGED << cfg_vars, youtube, quota_usage, video_id, last_call,
                    last_rotation, ok_calls, quota_fatal, full_walks >>
    /\ req_log' = Logged

\* comments.py lines 129-138 once get_all_replies returned complete_replies
CCC_MergeReplies(complete_replies) ==
    LET item == Items(video_id, cur_page)[item_idx]
    IN /\ all_comments' =
            all_comments \o CCC_new_replies(complete_replies,
                                            CCC_api_replies(item, video_id))
       /\ SetWalk(CCC_AfterItem(cur_page, item_idx))

\* one reply-page request of CompleteCommentCollector.get_all_replies
\* (comments.py lines 37-74), with the merge when it returns
CCC_FetchReplyPage ==
    /\ pc = "ccc_fetch_replies"
    /\ UNCHANGED << wf_vars, memo, client_vars, analyzer_vars, rate_vars,
                    spins, kept_run >>
    /\ \E outcome \in CCC_ReplyOutcomes :
        LET item == Items(video_id, cur_page)[item_idx]
            parent_id == item.id
            page == PageOf(r_next_page_token)
        IN /\ last_call' = [endpoint |-> "comments", target |-> parent_id,
                            token |-> r_next_page_token, client |-> CCC_api_key,
                            cfg_key |-> CCC_api_key, usage_before |-> 0,
                            limit |-> 1,
                            embedded |-> Len(CCC_api_replies(item, video_id)),
                            total |-> item.snippet.totalReplyCount,
                            outcome |-> outcome]
           /\ full_walks' =
                (IF outcome = "ok"
                    /\ NextToken(ReplyPages(parent_id), page) = NoToken
                 THEN full_walks \cup {parent_id} ELSE full_walks)
           /\ IF outcome = "ok"
              THEN LET page_records ==
                         [i \in 1..Len(ReplyPages(parent_id)[page]) |->
                            CCC_extract_comment_data(ReplyPages(parent_id)[page][i],
                                                     video_id, TRUE, parent_id)]
                       replies == all_replies \o page_records
                       token == NextToken(ReplyPages(parent_id), page)
                   IN IF token = NoToken
                      THEN /\ CCC_MergeReplies(replies)
                           /\ hist' = Hist(pc, "ok", 0, 0,
                                           hist.pages_done
                                             + Ended(video_id, cur_page, item_idx))
                           /\ UNCHANGED reply_vars
                      ELSE /\ all_replies' = replies
                           /\ r_next_page_token' = token
                           /\ hist' = Hist(pc, "ok", 0, 0, hist.pages_done)
                           /\ UNCHANGED << r_retry_count, all_comments,
                                           walk_vars >>
              ELSE \* 404, another status or an exception: break (lines 62-72)
                   /\ CCC_MergeReplies(all_replies)
                   /\ hist' = Hist(pc, outcome, 0, 0,
                                   hist.pages_done
                                     + Ended(video_id, cur_page, item_idx))
                   /\ UNCHANGED reply_vars
    /\ UNCHANGED << cfg_vars, youtube, quota_usage, video_id, last_rotation,
                    ok_calls, quota_fatal >>
    /\ req_log' = Logged

(* ------------------- YouTubeWorkFlow.py: YouTubeWorkflow --------------- *)
\* how one run of the try block can end at the get_video_info call: the
\* metadata arrives, an HttpError (403 quotaExceeded, 403 forbidden, another
\* status) is raised, or any other exception is raised (lines 32-40)
WorkflowOutcomes == {"ok", "quotaExceeded", "forbidden", "httpError", "exception"}

\* a client built with the first credential whatever the config holds
ClientKey_First(cfg_key) == 1

\* YouTubeAPIClient.__init__ line 21: developerKey=config.api_key
ClientKey(cfg_key) == cfg_key

collector_vars == << youtube, quota_usage, pc, video_id, all_comments,
                     next_page_token, retry_count, cur_page, item_idx,
                     all_replies, r_next_page_token, r_retry_count, last_call,
                     ok_calls, quota_fatal, full_walks, hist >>

\* main calls workflow.process_single_video(video_url, options)
WorkflowStart ==
    /\ pc = "idle"
    /\ wf_pc = "idle"
    /\ wf_pc' = "metadata"
    /\ \E inc \in BOOLEAN : include_comments' = inc
    /\ UNCHANGED << cfg_vars, collector_vars, last_rotation, wf_client,
                    wf_outcome, wf_runs, wf_result, memo,
                    client_vars, analyzer_vars, rate_vars, spins,
                    req_log, kept_run >>

\* one run of the try block up to extract_full_metadata (lines 30-40), with
\* the handlers of lines 79-103
WorkflowMetadata ==
    /\ wf_pc = "metadata"
    /\ \E outcome \in WorkflowOutcomes :
        /\ wf_client' = ClientKey(api_key)
        /\ wf_outcome' = outcome
        /\ IF outcome = "quotaExceeded"
           THEN \* lines 85-89: rotate, new factory, the call is made again
                LET c == _change_api(api_count) IN
                /\ api_count' = c.api_count
                /\ api_key' = c.api_key
                /\ api_count' <= MaxApiCount
                /\ last_rotation' = Rotation(api_count, "workflow")
                /\ wf_pc' = "metadata"
                /\ wf_runs' = wf_runs + 1
                /\ UNCHANGED wf_result
           ELSE /\ wf_pc' = (IF outcome = "ok" THEN "rest" ELSE "done")
                /\ wf_result' =
                     (IF outcome = "ok" THEN wf_result
                      ELSE IF outcome = "exception"
                      THEN "failure"       \* lines 98-103
                      ELSE None)           \* lines 91-96: no return statement
                /\ UNCHANGED << api_count, api_key, last_rotation, wf_runs >>
    /\ UNCHANGED << env_keys, quota_limit_per_day, max_retries, collector_vars,
                    include_comments, memo, client_vars, analyzer_vars, rate_vars, spins,
                    req_log, kept_run >>

\* the rest of the try block (lines 42-77): subtitles, save_video_data and the
\* comments; YouTubeCommentCollector leaves two abstract methods of
\* ICommentCollector undefined, so line 63 raises TypeError
WorkflowRest ==
    /\ wf_pc = "rest"
    /\ \E outcome \in {"ok", "exception"} :
        wf_result' = (IF outcome = "exception" \/ include_comments
                      THEN "failure"       \* lines 98-103
                      ELSE None)           \* the function ends without return
    /\ wf_pc' = "done"
    /\ UNCHANGED << cfg_vars, collector_vars, last_rotation, include_comments,
                    wf_client, wf_outcome, wf_runs, memo, client_vars, analyzer_vars, rate_vars, spins,
                    req_log, kept_run >>

\* the caller takes the result
WorkflowFinish ==
    /\ wf_pc = "done"
    /\ wf_pc' = "idle"
    /\ include_comments' = TRUE
    /\ wf_client' = NoKey
    /\ wf_outcome' = "none"
    /\ wf_runs' = 0
    /\ wf_result' = "none"
    /\ UNCHANGED << cfg_vars, collector_vars, last_rotation, memo,
                    client_vars, analyzer_vars, rate_vars, spins,
                    req_log, kept_run >>

(* ----------------------- analyze_comment_structure --------------------- *)
\* most_replied_thread = None
NoThread == [comment_id |-> None, reply_count |-> 0, like_count |-> 0]

\* round(n / d, 2) in hundredths for d > 0: Python rounds to the nearest
\* hundredth and an exact half to the even one
Round2(n, d) ==
    LET q == (100 * n) \div d
        r == (100 * n) % d
    IN IF 2 * r > d THEN q + 1
       ELSE IF 2 * r < d THEN q
       ELSE IF q % 2 = 0 THEN q ELSE q + 1

\* the expression round(n / d, 2): its value in hundredths, or the
\* ZeroDivisionError it raises
Quotient(n, d) ==
    IF d = 0 THEN [exception |-> "ZeroDivisionError", value |-> 0]
    ELSE [exception |-> "none", value |-> Round2(n, d)]

\* a division made whatever the divisor is
GuardedQuotient_Unguarded(n, d) == Quotient(n, d)

\* "round(n / d, 2) if <list of d elements> else 0" (lines 306, 321)
GuardedQuotient(n, d) ==
    IF d # 0 THEN Quotient(n, d) ELSE [exception |-> "none", value |-> 0]

\* lines 298-299: the list comprehensions
top_level_of(comments) == SelectSeq(comments, LAMBDA c : ~c.is_reply)
replies_of(comments) == SelectSeq(comments, LAMBDA c : c.is_reply)

\* sum(c['like_count'] for c in comments) (line 305)
RECURSIVE total_likes_of(_)
total_likes_of(comments) ==
    IF comments = << >> THEN 0
    ELSE Head(comments).like_count + total_likes_of(Tail(comments))

\* a count that opens a new entry for every reply
reply_counts_of_PerReply(replies) ==
    [i \in 1..Len(replies) |-> [parent_id |-> replies[i].parent_id, count |-> 1]]

\* lines 313-316: the dict reply_counts after the loop over replies, as the
\* sequence of its items in insertion order
RECURSIVE reply_counts_of(_)
reply_counts_of(replies) ==
    IF replies = << >> THEN << >>
    ELSE LET before == reply_counts_of(SubSeq(replies, 1, Len(replies) - 1))
             parent_id == replies[Len(replies)].parent_id
         IN IF \E i \in 1..Len(before) : before[i].parent_id = parent_id
            THEN [i \in 1..Len(before) |->
                    IF before[i].parent_id = parent_id
                    THEN [before[i] EXCEPT !.count = @ + 1]
                    ELSE before[i]]
            ELSE Append(before, [parent_id |-> parent_id, count |-> 1])

\* a maximum that keeps the last of several equal items
MaxByCount_Last(items) ==
    items[CHOOSE i \in 1..Len(items) :
            /\ \A j \in 1..Len(items) : items[j].count <= items[i].count
            /\ \A j \in (i + 1)..Len(items) : items[j].count < items[i].count]

\* max(items, key=lambda x: x[1]) of a non-empty sequence: Python keeps the
\* first of several equal items (lines 318, 331)
MaxByCount(items) ==
    items[CHOOSE i \in 1..Len(items) :
            /\ \A j \in 1..Len(items) : items[j].count <= items[i].count
            /\ \A j \in 1..(i - 1) : items[j].count < items[i].count]

\* a histogram that adds up the replies instead of counting the parents
reply_distribution_of_Replies(reply_counts) ==
    [k \in {reply_counts[i].count : i \in 1..Len(reply_counts)} |->
        k * Cardinality({i \in 1..Len(reply_counts) : reply_counts[i].count = k})]

\* lines 324-327: reply count -> number of parents with that many replies
reply_distribution_of(reply_counts) ==
    [k \in {reply_counts[i].count : i \in 1..Len(reply_counts)} |->
        Cardinality({i \in 1..Len(reply_counts) : reply_counts[i].count = k})]

\* lines 331-341: the entry of the most replied parent, None when no top-level
\* record of the list has its id (author and text are copies and left out)
most_replied_thread_of(top_level, reply_counts) ==
    LET most_replied_parent == MaxByCount(reply_counts)
        found == {i \in 1..Len(top_level) :
                     top_level[i].comment_id = most_replied_parent.parent_id}
    IN IF found = {} THEN NoThread
       ELSE LET most_replied_comment ==
                    top_level[CHOOSE i \in found : \A j \in found : i <= j]
            IN [comment_id |-> most_replied_comment.comment_id,
                reply_count |-> most_replied_parent.count,
                like_count |-> most_replied_comment.like_count]

\* an initial aggregate kept from one call to the next: the total goes on
\* from the one the previous call reported
EmptyAnalysis_Carried(comments) ==
    [total_comments |->
        Len(comments) + (IF an_by = "none" THEN 0 ELSE analysis.total_comments),
     top_level_comments |-> 0,
     replies |-> 0,
     threads_with_replies |-> 0,
     max_replies_per_thread |-> 0,
     total_threads |-> 0,
     average_replies_per_thread |-> 0,
     reply_distribution |-> << >>,
     most_replied_thread |-> NoThread,
     total_likes |-> 0,
     average_likes_per_comment |-> 0,
     exception |-> "none"]

\* an initial aggregate that computes the average of the likes at once
EmptyAnalysis_Averaged(comments) ==
    [total_comments |-> Len(comments),
     top_level_comments |-> 0,
     replies |-> 0,
     threads_with_replies |-> 0,
     max_replies_per_thread |-> 0,
     total_threads |-> 0,
     average_replies_per_thread |-> 0,
     reply_distribution |-> << >>,
     most_replied_thread |-> NoThread,
     total_likes |-> 0,
     average_likes_per_comment |-> Quotient(0, Len(comments)).value,
     exception |-> Quotient(0, Len(comments)).exception]

\* lines 280-293: the aggregate the function starts from
EmptyAnalysis(comments) ==
    [total_comments |-> Len(comments),
     top_level_comments |-> 0,
     replies |-> 0,
     threads_with_replies |-> 0,
     max_replies_per_thread |-> 0,
     total_threads |-> 0,
     average_replies_per_thread |-> 0,
     reply_distribution |-> << >>,
     most_replied_thread |-> NoThread,
     total_likes |-> 0,
     average_likes_per_comment |-> 0,
     exception |-> "none"]

\* YouTubeCommentCollector.analyze_comment_structure(comments); the two
\* averages are in hundredths; exception names what the call raised
analyze_comment_structure(comments) ==
    IF comments = << >> THEN EmptyAnalysis(comments)       \* lines 295-296
    ELSE
    LET top_level == top_level_of(comments)
        replies == replies_of(comments)
        reply_counts == reply_counts_of(replies)
        likes == GuardedQuotient(total_likes_of(comments), Len(comments))
        average == GuardedQuotient(Len(replies), Len(top_level))
        base == [EmptyAnalysis(comments) EXCEPT
                    !.top_level_comments = Len(top_level),
                    !.replies = Len(replies),
                    !.total_threads = Len(top_level),
                    !.total_likes = total_likes_of(comments),
                    !.average_likes_per_comment = likes.value,
                    !.exception = likes.exception]
    IN IF likes.exception # "none" \/ replies = << >> THEN base
       ELSE IF average.exception # "none"
       THEN [base EXCEPT !.exception = average.exception]
       ELSE [base EXCEPT
                !.threads_with_replies =
                    Cardinality({replies[i].parent_id : i \in 1..Len(replies)}),
                !.max_replies_per_thread = MaxByCount(reply_counts).count,
                !.average_replies_per_thread = average.value,
                !.reply_distribution = reply_distribution_of(reply_counts),
                !.most_replied_thread =
                    most_replied_thread_of(top_level, reply_counts)]

\* CompleteCommentCollector.analyze_comment_structure (comments.py lines
\* 155-186)
CCC_analyze_comment_structure(comments) ==
    LET top_level == top_level_of(comments)
        replies == replies_of(comments)
        reply_counts == reply_counts_of(replies)
    IN [total_comments |-> Len(comments),
        top_level_comments |-> Len(top_level),
        replies |-> Len(replies),
        threads_with_replies |->
            Cardinality({replies[i].parent_id : i \in 1..Len(replies)}),
        max_replies_per_thread |->
            (IF reply_counts # << >> THEN MaxByCount(reply_counts).count
             ELSE 0),
        total_threads |-> Len(top_level),
        exception |-> "none"]

(* --------------- services/YouTubeAPIClient.py: YouTubeAPIClient -------- *)
\* the quota cost search_videos checks and charges (lines 106, 117)
SearchCost == 100

\* cap on the calls made on one YouTubeAPIClient
MaxClientCalls == 4

\* YouTubeAPIClient._check_quota(cost): TRUE when it raises (line 43)
APIClient_check_quota(usage, cost) == usage + cost > quota_limit_per_day

\* the cost each method passes to _check_quota and adds to quota_usage
ClientCost(method) == IF method = "search_videos" THEN SearchCost ELSE 1

\* how request.execute() and the test of response['items'] can end: "empty"
\* is the ValueError of lines 66 / 99 (search_videos returns the empty list)
ClientOutcomes(method) ==
    IF method = "search_videos" THEN {"ok", "quotaExceeded", "httpError"}
    ELSE {"ok", "empty", "quotaExceeded", "httpError"}

\* YouTubeAPIClient.__init__ on the config
NewAPIClient ==
    /\ client_youtube' = ClientKey(api_key)
    /\ client_quota_usage' = 0
    /\ client_hist' = NoClientHist
    /\ UNCHANGED << cfg_vars, collector_vars, last_rotation, wf_vars, memo,
                    analyzer_vars, rate_vars, spins,
                    req_log, kept_run >>

\* one call of a method of the client: pre-check, request, charge; an
\* HttpError is logged and raised again
APIClientCall(method) ==
    /\ client_youtube # NoKey
    /\ client_hist.calls < MaxClientCalls
    /\ IF APIClient_check_quota(client_quota_usage, ClientCost(method))
       THEN /\ client_hist' = ClientHist(method, "pre_check", api_count,
                                         client_hist.calls + 1)
            /\ UNCHANGED client_quota_usage
       ELSE \E outcome \in ClientOutcomes(method) :
            /\ client_hist' = ClientHist(method, outcome, api_count,
                                         client_hist.calls + 1)
            /\ client_quota_usage' =
                 (IF outcome \in {"ok", "empty"}
                  THEN client_quota_usage + ClientCost(method)
                  ELSE client_quota_usage)
    /\ UNCHANGED << cfg_vars, collector_vars, last_rotation, wf_vars, memo,
                    client_youtube, analyzer_vars, rate_vars, spins,
                    req_log, kept_run >>

get_video_info == APIClientCall("get_video_info")
get_channel_info == APIClientCall("get_channel_info")
search_videos == APIClientCall("search_videos")

\* collector and workflow as Init leaves them
IdleCollector ==
    /\ youtube = api_key
    /\ quota_usage = 0
    /\ pc = "idle"
    /\ video_id = "v1"
    /\ all_comments = << >>
    /\ next_page_token = NoToken
    /\ retry_count = 0
    /\ cur_page = 1
    /\ item_idx = 1
    /\ all_replies = << >>
    /\ r_next_page_token = NoToken
    /\ r_retry_count = 0
    /\ last_call = NoCall
    /\ last_rotation = NoRotation
    /\ ok_calls = 0
    /\ quota_fatal = FALSE
    /\ full_walks = {}
    /\ hist = NoHist

IdleWorkflow ==
    /\ wf_pc = "idle"
    /\ include_comments = TRUE
    /\ wf_client = NoKey
    /\ wf_outcome = "none"
    /\ wf_runs = 0
    /\ wf_result = "none"
    /\ memo = NoMemo

\* daily limits around one unit and around the cost of a search
ClientLimits == (1..MaxQuotaLimit) \cup {SearchCost + k : k \in 0..MaxQuotaLimit}

\* a YouTubeAPIClient used on its own
ClientInit ==
    /\ env_keys \in 1..MaxKeys
    /\ api_count = 1
    /\ api_key = 1
    /\ quota_limit_per_day \in ClientLimits
    /\ max_retries \in 1..MaxRetries
    /\ IdleCollector
    /\ IdleWorkflow
    /\ client_youtube = NoKey
    /\ client_quota_usage = 0
    /\ client_hist = NoClientHist
    /\ an_comments = << >>
    /\ analysis = NoAnalysis
    /\ an_by = "none"
    /\ an_calls = 0
    /\ IdleRate
    /\ spins = 0
    /\ req_log = NoLog
    /\ kept_run = NoRun

ClientNext ==
    \/ NewAPIClient
    \/ get_video_info
    \/ get_channel_info
    \/ search_videos

ClientSpec == ClientInit /\ [][ClientNext]_vars

(* ------------------- the analyzer applied to record lists -------------- *)
\* cap on the length of the list given to the analyzer
MaxListLen == 4

\* cap on the calls of the analyzer on one list
MaxAnalyses == 2

\* records as extract_comment_data builds them: two top-level comments, a
\* reply to each, and a reply whose parent X has no record
SampleRecords ==
    {extract_comment_data(RawThreadBare("A", 2, 2), "v1", FALSE, ""),
     extract_comment_data(RawThreadBare("B", 1, 0), "v1", FALSE, ""),
     extract_comment_data(RawReply("A1", "A", 1), "v1", TRUE, "A"),
     extract_comment_data(RawReply("B1", "B", 0), "v1", TRUE, "B"),
     extract_comment_data(RawReply("X1", "X", 3), "v1", TRUE, "X")}

RecordLists == UNION {[1..n -> SampleRecords] : n \in 0..MaxListLen}

IdleClient ==
    /\ client_youtube = NoKey
    /\ client_quota_usage = 0
    /\ client_hist = NoClientHist

\* a collector that is handed a record list
AnalyzerInit ==
    /\ env_keys = 1
    /\ api_count = 1
    /\ api_key = 1
    /\ quota_limit_per_day = MaxQuotaLimit
    /\ max_retries = MaxRetries
    /\ IdleCollector
    /\ IdleWorkflow
    /\ IdleClient
    /\ an_comments \in RecordLists
    /\ analysis = NoAnalysis
    /\ an_by = "none"
    /\ an_calls = 0
    /\ IdleRate
    /\ spins = 0
    /\ req_log = NoLog
    /\ kept_run = NoRun

\* collector.analyze_comment_structure(comments)
Analyze ==
    /\ an_calls < MaxAnalyses
    /\ analysis' = analyze_comment_structure(an_comments)
    /\ an_by' = "YouTubeCommentCollector"
    /\ an_calls' = an_calls + 1
    /\ UNCHANGED << cfg_vars, collector_vars, last_rotation, wf_vars, memo,
                    client_vars, an_comments, rate_vars, spins,
                    req_log, kept_run >>

\* CompleteCommentCollector.analyze_comment_structure(comments)
CCC_Analyze ==
    /\ an_calls < MaxAnalyses
    /\ analysis' = CCC_analyze_comment_structure(an_comments)
    /\ an_by' = "CompleteCommentCollector"
    /\ an_calls' = an_calls + 1
    /\ UNCHANGED << cfg_vars, collector_vars, last_rotation, wf_vars, memo,
                    client_vars, an_comments, rate_vars, spins,
                    req_log, kept_run >>

AnalyzerNext ==
    \/ Analyze
    \/ CCC_Analyze

AnalyzerSpec == AnalyzerInit /\ [][AnalyzerNext]_vars

(* --------------- YouTubeCommentCollector.py: main() on one video ------- *)
\* lines 414-424: a collector is created and collect_all_comments is entered
\* for the video
MainCollect ==
    /\ pc = "idle"
    /\ an_by = "none"
    /\ youtube' = api_key
    /\ quota_usage' = 0
    /\ ok_calls' = 0
    /\ last_call' = NoCall
    /\ video_id' = ScenarioVideo
    /\ all_comments' = << >>
    /\ SetWalk(IF 0 < max_retries
               THEN [pc |-> "fetch_page", next_page_token |-> NoToken,
                     retry_count |-> 0, cur_page |-> 1, item_idx |-> 1]
               ELSE OuterCheck(NoToken, 0, 1, 1))
    /\ all_replies' = << >>
    /\ r_next_page_token' = NoToken
    /\ r_retry_count' = 0
    /\ quota_fatal' = FALSE
    /\ full_walks' = {}
    /\ hist' = Hist("idle", "start", 0, 0, 0)
    /\ UNCHANGED << cfg_vars, last_rotation, wf_vars, memo, client_vars,
                    analyzer_vars, rate_vars, spins,
                    req_log, kept_run >>

\* line 427: get_collection_summary(test_video_id, all_comments), whose
\* line 347 analyzes the list
MainSummary ==
    /\ pc = "returned"
    /\ pc' = "summarized"
    /\ an_comments' = all_comments
    /\ analysis' = analyze_comment_structure(all_comments)
    /\ an_by' = "YouTubeCommentCollector"
    /\ an_calls' = an_calls + 1
    /\ UNCHANGED << cfg_vars, youtube, quota_usage, video_id, all_comments,
                    next_page_token, retry_count, cur_page, item_idx,
                    reply_vars, last_call, last_rotation, ok_calls,
                    quota_fatal, full_walks, hist, wf_vars, memo,
                    client_vars, rate_vars, spins, req_log, kept_run >>

ScenarioNext ==
    \/ MainCollect
    \/ FetchThreadPage
    \/ ProcessItem
    \/ FetchReplyPage
    \/ MainSummary

ScenarioSpec == Init /\ [][ScenarioNext]_vars

Next ==
    \/ NewCollector
    \/ StartCollect
    \/ FetchThreadPage
    \/ ProcessItem
    \/ FetchReplyPage
    \/ Finish
    \/ CCC_StartCollect
    \/ CCC_FetchThreadPage
    \/ CCC_ProcessItem
    \/ CCC_FetchReplyPage

Spec == Init /\ [][Next]_vars

\* the workflow on its own
WorkflowNext ==
    \/ WorkflowStart
    \/ WorkflowMetadata
    \/ WorkflowRest
    \/ WorkflowFinish

WorkflowSpec == Init /\ [][WorkflowNext]_vars

\* a collection of YouTubeCommentCollector has returned after quota was
\* exhausted with no credential left (lines 46-52, 62-65)
CutShort == pc = "returned" /\ quota_fatal

\* a collection of YouTubeCommentCollector has returned with every thread
\* page and every reply listing walked to its end (line 235)
CompletedNormally ==
    /\ pc = "returned"
    /\ ~quota_fatal
    /\ hist.at \in {"fetch_page", "process_items", "fetch_replies"}
    /\ hist.pages_done = Len(ThreadPages(video_id))
    /\ \A k \in 1..Len(ThreadPages(video_id)) :
          \A i \in 1..Len(Items(video_id, k)) :
             LET item == Items(video_id, k)[i]
             IN NeedsCompletion(item.snippet.totalReplyCount,
                                Len(api_replies(item, video_id)))
                  => item.id \in full_walks

\* the caller keeps what one collection gave it: the returned list and the
\* collector's quota_usage (YouTubeWorkFlow.py lines 64-71)
Observe ==
    /\ CutShort \/ CompletedNormally
    /\ ~memo.kept
    /\ memo' = [kept |-> TRUE, list |-> all_comments, usage |-> quota_usage,
                cut |-> CutShort]
    /\ UNCHANGED << cfg_vars, collector_vars, last_rotation, wf_vars,
                    client_vars, analyzer_vars, rate_vars, spins,
                    req_log, kept_run >>

\* one collector used for collection after collection by an observing
\* caller, with max_retries = 1 and a single credential
ObserverInit ==
    /\ Init
    /\ max_retries = 1
    /\ env_keys = 1

ObserverNext ==
    \/ Next
    \/ Observe

ObserverSpec == ObserverInit /\ [][ObserverNext]_vars

\* collectors and workflow sharing one YouTubeConfig, with a daily limit of
\* one or two units so that the pre-check rotates early
FullInit ==
    /\ Init
    /\ quota_limit_per_day <= 2

FullNext ==
    \/ Next
    \/ WorkflowNext

FullSpec == FullInit /\ [][FullNext]_vars

(* ------------------------------ claims --------------------------------- *)
NoDuplicateIds(list) ==
    \A i, j \in 1..Len(list) :
        i # j => list[i].comment_id # list[j].comment_id

RepliesOf(list, parent) ==
    Cardinality({i \in 1..Len(list) :
                    list[i].is_reply /\ list[i].parent_id = parent})

ThreadItem(v, id) ==
    CHOOSE item \in UNION {{ThreadPages(v)[k][i] : i \in 1..Len(ThreadPages(v)[k])} :
                              k \in 1..Len(ThreadPages(v))} : item.id = id

HasRecord(list, id) == \E i \in 1..Len(list) : list[i].comment_id = id

\* C1: the list a collection returns holds no two records with the same
\* comment_id.
C1_DedupInvariant ==
    pc = "returned" => NoDuplicateIds(all_comments)

\* C2: for every thread whose reply walk returned the whole listing (T
\* replies, T greater than the embedded E), the returned list holds exactly T
\* reply records with that thread as parent_id.
C2_Completeness ==
    pc = "returned" =>
        \A p \in full_walks :
            RepliesOf(all_comments, p)
                = ThreadItem(video_id, p).snippet.totalReplyCount

\* C3: a request to the replies endpoint is made for a thread only when its
\* totalReplyCount is strictly greater than the number of embedded replies;
\* a thread with totalReplyCount = 0 never causes one.
C3_CompletionOnlyWhenMore ==
    last_call.endpoint = "comments" =>
        /\ last_call.total > last_call.embedded
        /\ last_call.total # 0

\* C3 witness: thread A (3 replies, 1 embedded) had its replies requested and
\* thread B (0 replies) has been processed without a request for it.
C3_Witness ==
    /\ HasRecord(all_comments, "B")
    /\ last_call.endpoint = "comments"
    /\ last_call.target = "A"
    /\ last_call.outcome = "ok"

\* C4: a collection in which quota was exhausted and rotation found no
\* further credential does not return normally: the exception reaches the
\* caller.
C4_QuotaExhaustionPropagates ==
    quota_fatal => pc # "returned"

\* C5: quota_usage equals the number of successful remote calls since
\* construction or the last rotation reset, and it changes only by +1 at a
\* successful call or by a reset to 0.
C5_QuotaCountsSuccessfulCalls ==
    /\ [](quota_usage = ok_calls)
    /\ [][quota_usage' # quota_usage =>
             \/ quota_usage' = quota_usage + 1 /\ last_call'.outcome = "ok"
             \/ quota_usage' = 0]_vars

\* C5 witness: three successful calls have been charged.
C5_Witness ==
    /\ quota_usage = 3
    /\ ok_calls = 3
    /\ last_call.outcome = "ok"

\* C6: quota_usage never exceeds quota_limit_per_day, and no request of the
\* collector is issued from a ledger reading with usage + 1 > limit.
C6_NeverOverBudget ==
    /\ quota_usage <= quota_limit_per_day
    /\ last_call.endpoint # "none" =>
          last_call.usage_before + 1 <= last_call.limit

\* C6 witness: the budget is used up and the pre-check has stopped a call.
C6_Witness ==
    /\ quota_usage = quota_limit_per_day
    /\ last_rotation.via = "pre_check"
    /\ last_call.endpoint # "none"
    /\ last_call.usage_before + 1 = last_call.limit

\* C7: right after a rotation onto a configured credential, quota_usage is 0
\* and the collector's client is built from the newly active credential.
C7_RotationResets ==
    [][(api_count' = api_count + 1 /\ api_key' # NoKey) =>
          (quota_usage' = 0 /\ youtube' = api_key')]_vars

\* C8: with quota_limit_per_day = 2 and a second credential, the attempt made
\* at quota_usage = 2 rotates, issues its request from usage 0 with the
\* second credential, and leaves quota_usage = 1 when the request succeeds.
C8_ScenarioThirdCall ==
    [][(/\ quota_limit_per_day = 2
        /\ env_keys >= 2
        /\ quota_usage = 2
        /\ api_count = 1
        /\ api_count' = 2) =>
          (/\ last_call'.client = 2
           /\ last_call'.usage_before = 0
           /\ quota_usage' = (IF last_call'.outcome = "ok" THEN 1 ELSE 0))]_vars

\* C9: a rotation that finds a credential at the next index returns true, and
\* every request made while a credential is configured uses a client built
\* from config.api_key.
C9_RotateActivatesCredential ==
    /\ last_rotation.found => Truthy(last_rotation.ret)
    /\ (last_call.endpoint # "none" /\ last_call.cfg_key # NoKey) =>
          last_call.client = last_call.cfg_key

\* C10: _change_api advances api_count by one and looks the new index up; when
\* no credential is found it returns a false value and leaves api_key as it was.
C10_FailedRotateKeepsKey ==
    [][api_count' # api_count =>
          /\ api_count' = api_count + 1
          /\ Getenv(api_count') # NoKey => api_key' = Getenv(api_count')
          /\ Getenv(api_count') = NoKey =>
                (api_key' = api_key /\ ~Truthy(last_rotation'.ret))]_vars

\* C11: api_count is 1 at startup and, over any sequence of collector and
\* workflow operations, every change of it is an increase: it is never
\* decremented or reset.
C11_ApiCountOnlyIncreases ==
    /\ api_count = 1
    /\ [][api_count' >= api_count]_vars

\* C11 witness: the collector rotated from index 1 and found no credential,
\* then the workflow rotated from index 2.
C11_Witness ==
    /\ api_count = 3
    /\ quota_fatal
    /\ last_rotation.via = "workflow"
    /\ last_rotation.from = 2

\* C12: when max_retries consecutive requests of the same thread page fail
\* transiently, collect_all_comments ends the walk and returns the records
\* accumulated so far without raising: no failed attempt touches the list.
C12_RetryExhaustionReturnsPartial ==
    /\ []((hist.at = "fetch_page" /\ hist.streak >= max_retries) =>
             pc = "returned")
    /\ [][(pc = "fetch_page" /\ hist'.event = "transient") =>
             (all_comments' = all_comments /\ pc' # "raised")]_vars

\* C12 witness: page 1 was processed, then the request of page 2 failed
\* three times in a row and the walk returned the records of page 1.
C12_Witness ==
    /\ pc = "returned"
    /\ max_retries = 3
    /\ hist.at = "fetch_page"
    /\ hist.event = "transient"
    /\ hist.streak = 3
    /\ hist.pages_done = 1
    /\ HasRecord(all_comments, "B")

\* C13: a non-quota HTTP error on a thread-page or a reply-page request makes
\* that call site give up its walk with what it gathered: the thread walk
\* returns its list, the reply walk returns its replies to the merge, no
\* further request of that walk follows (cursor pending or not) and nothing
\* is raised.
C13_NonQuotaErrorAbortsWalk ==
    [][hist'.event = "forbidden" =>
          /\ pc \in {"fetch_page", "ccc_fetch_page"} =>
                (pc' = "returned" /\ all_comments' = all_comments)
          /\ pc \in {"fetch_replies", "ccc_fetch_replies"} =>
                pc' \notin {"fetch_replies", "ccc_fetch_replies", "raised"}]_vars

\* C14: a 404 from the replies endpoint ends the reply walk at once with the
\* replies gathered so far (those not embedded are appended), without retry,
\* sleep, rotation or exception, and the collection goes on with the next
\* thread item.
C14_NotFoundEndsReplyWalk ==
    [][(pc \in {"fetch_replies", "ccc_fetch_replies"}
        /\ hist'.event = "notFound") =>
          LET item == Items(video_id, cur_page)[item_idx]
              embedded_ids == {item.replies.comments[i].id :
                                  i \in 1..Len(item.replies.comments)}
              gathered == SelectSeq(all_replies,
                                    LAMBDA r : r.comment_id \notin embedded_ids)
          IN /\ all_comments' = all_comments \o gathered
             /\ api_count' = api_count
             /\ quota_usage' = quota_usage
             /\ hist'.slept = 0
             /\ pc' \notin {"fetch_replies", "ccc_fetch_replies", "raised"}
             /\ item_idx < Len(Items(video_id, cur_page)) =>
                   /\ pc' \in {"process_items", "ccc_process_items"}
                   /\ item_idx' = item_idx + 1
                   /\ cur_page' = cur_page]_vars

\* C14 witness: the second reply page of thread A answered 404; A2 of the
\* first page was kept, A3 is missing, and the loop stands at item B.
C14_Witness ==
    /\ hist.at = "fetch_replies"
    /\ hist.event = "notFound"
    /\ pc = "process_items"
    /\ item_idx = 2
    /\ HasRecord(all_comments, "A2")
    /\ ~HasRecord(all_comments, "A3")

\* C15: on transient failures one page request is attempted at most
\* max_retries times (after max_retries failures in a row the call site has
\* left the request), and the sleep between the k-th failed attempt and the
\* next attempt is retry_delay * k; no sleep follows the last failure.
C15_BoundedAttemptsLinearBackoff ==
    /\ [](hist.streak <= max_retries)
    /\ [](hist.streak >= max_retries => pc # hist.at)
    /\ [][(pc \in {"fetch_page", "fetch_replies"}
           /\ hist'.event = "transient") =>
             LET k == IF pc = "fetch_page" THEN retry_count'
                      ELSE r_retry_count'
             IN /\ hist'.streak <= k \/ pc' # pc
                /\ hist'.slept = (IF pc' = pc /\ hist'.streak < max_retries
                                  THEN retry_delay * k ELSE 0)]_vars

\* C15 witness: the second attempt of a thread page in a row failed
\* transiently and the collector slept 2 * retry_delay before the third.
C15_Witness ==
    /\ pc = "fetch_page"
    /\ hist.at = "fetch_page"
    /\ hist.event = "transient"
    /\ hist.streak = 2
    /\ retry_count = 2
    /\ hist.slept = 2 * retry_delay

\* C16: when a request answers 403 quotaExceeded and a credential is
\* configured at the next index (the rotation succeeds), the same page
\* request is made again at once: the call site and its cursor are unchanged,
\* nothing is slept and the retry counters are not advanced.
C16_RotatedRetryIsFree ==
    [][(/\ pc \in {"fetch_page", "fetch_replies"}
        /\ hist'.event = "quotaExceeded"
        /\ Getenv(api_count + 1) # NoKey) =>
          /\ pc' = pc
          /\ next_page_token' = next_page_token
          /\ r_next_page_token' = r_next_page_token
          /\ hist'.slept = 0
          /\ retry_count' = retry_count
          /\ r_retry_count' = r_retry_count]_vars

\* the pageToken parameter of a thread-page request (lines 174-181, comments.py
\* lines 86-96) is the nextPageToken of the page processed last, none before
\* the first page is processed
CursorCarried ==
    (pc \in {"fetch_page", "ccc_fetch_page"}
     /\ hist'.event \in {"ok", "transient", "forbidden", "quotaExceeded"}) =>
        last_call'.token =
            (IF hist.pages_done = 0 THEN NoToken
             ELSE NextToken(ThreadPages(video_id), hist.pages_done))

\* the for loop over the items of a page (line 190, comments.py line 108) is
\* left in this step
LeavesItemLoop ==
    /\ pc \in {"process_items", "fetch_replies", "ccc_process_items",
                "ccc_fetch_replies"}
    /\ pc' \notin {"process_items", "fetch_replies", "ccc_process_items",
                   "ccc_fetch_replies"}

\* C17 as stated: every thread-page request carries the nextPageToken of the
\* page processed last, the items of a returned page are all processed before
\* the walk goes on or ends, and the walk is over exactly when a successful
\* response had no nextPageToken (every page was processed).
C17_WalkFollowsCursor ==
    /\ [][CursorCarried]_vars
    /\ [][LeavesItemLoop => hist'.pages_done = hist.pages_done + 1]_vars
    /\ [](pc = "returned" <=>
             hist.pages_done = Len(ThreadPages(video_id)))

\* C17 amended: every thread-page request carries the nextPageToken of the
\* page processed last; the items of a returned page are processed in order
\* and the page is left before its end only when the exception of an
\* exhausted quota leaves get_all_replies; once a successful response without
\* nextPageToken was processed the walk is over, and a walk that is over
\* without that has ended on a failed attempt.
C17_WalkFollowsCursorOrEndsEarly ==
    /\ [][CursorCarried]_vars
    /\ [][LeavesItemLoop =>
             \/ hist'.pages_done = hist.pages_done + 1
             \/ pc = "fetch_replies" /\ hist'.event = "quotaExceeded"]_vars
    /\ [][(pc \in {"process_items", "ccc_process_items"}
           /\ pc' \in {"process_items", "ccc_process_items"}) =>
             (item_idx' = item_idx + 1 /\ cur_page' = cur_page)]_vars
    /\ [](hist.pages_done = Len(ThreadPages(video_id)) => pc = "returned")
    /\ [](pc = "returned" =>
             \/ hist.pages_done = Len(ThreadPages(video_id))
             \/ hist.event \in {"transient", "pre_check", "forbidden",
                                "quotaExceeded"})

\* C17 witness: both pages of v1 were fetched, the second with the cursor of
\* the first, and the walk ended after the page without nextPageToken.
C17_Witness ==
    /\ pc = "returned"
    /\ video_id = "v1"
    /\ hist.pages_done = 2
    /\ last_call.endpoint = "commentThreads"
    /\ last_call.token = 2
    /\ last_call.outcome = "ok"
    /\ HasRecord(all_comments, "C1")

C19_ObservationTellsCutShort ==
    (memo.kept /\ (CutShort \/ CompletedNormally) /\ memo.cut # CutShort) =>
        ~(memo.list = all_comments /\ memo.usage = quota_usage)

\* C20: in process_single_video an HttpError 403 quotaExceeded triggers a
\* credential rotation and the whole operation starts again from the top
\* (nothing is returned for the failed run); each run builds its services
\* from the credential the config holds then, which after a rotation is the
\* one of the new index.
C20_QuotaErrorRerunsWorkflow ==
    /\ [][(wf_pc = "metadata" /\ wf_outcome' = "quotaExceeded") =>
             /\ api_count' = api_count + 1
             /\ api_key' = Getenv(api_count + 1)
             /\ wf_pc' = "metadata"
             /\ wf_runs' = wf_runs + 1
             /\ wf_result' = "none"]_vars
    /\ [][wf_pc = "metadata" =>
             /\ wf_client' = api_key
             /\ wf_runs > 0 => wf_client' = Getenv(api_count)]_vars

\* C20 witness: after one rotation the operation ran again and got the
\* metadata through a client built from the second credential.
C20_Witness ==
    /\ wf_runs = 1
    /\ api_count = 2
    /\ wf_client = 2
    /\ wf_outcome = "ok"
    /\ wf_pc = "rest"

\* C21: in process_single_video a rotation that finds no credential at the
\* next index ends the operation in failure and the operation is not run
\* again, so one video is re-run at most as many times as credentials are
\* configured.
C21_NoCredentialIsTerminal ==
    /\ [][(/\ wf_pc = "metadata"
           /\ wf_outcome' = "quotaExceeded"
           /\ Getenv(api_count + 1) = NoKey) =>
             /\ wf_pc' = "done"
             /\ wf_result' = "failure"
             /\ wf_runs' = wf_runs]_vars
    /\ [](wf_runs <= env_keys)

\* C22: every remote call of the comment collector and of YouTubeAPIClient
\* (get_video_info, get_channel_info, search_videos) is made only after the
\* quota pre-check let it through, and after a pre-check that found the quota
\* exhausted or a quotaExceeded response the credential rotation is invoked
\* before the call is made again.
C22_PreCheckAndRotateBeforeRetry ==
    /\ [][(/\ client_hist'.calls = client_hist.calls + 1
           /\ client_hist'.event # "pre_check") =>
             client_quota_usage + ClientCost(client_hist'.method)
                <= quota_limit_per_day]_vars
    /\ [][(/\ client_hist'.calls = client_hist.calls + 1
           /\ client_hist.event \in {"pre_check", "quotaExceeded"}
           /\ client_hist'.method = client_hist.method) =>
             api_count > client_hist.api_count]_vars
    /\ [][(/\ pc \in {"fetch_page", "fetch_replies"}
           /\ last_call' # last_call) =>
             last_call'.usage_before + 1 <= quota_limit_per_day]_vars
    /\ [][(/\ pc \in {"fetch_page", "fetch_replies"}
           /\ hist'.event \in {"pre_check", "quotaExceeded"}) =>
             api_count' > api_count]_vars

\* the videos the service knows
KnownVideos == VideoIds \cup {ScenarioVideo}

\* <<video, thread id, totalReplyCount>> of every thread item the service
\* lists
ListedThreads ==
    UNION {UNION {{<< v, ThreadPages(v)[k][i].id,
                      ThreadPages(v)[k][i].snippet.totalReplyCount >> :
                        i \in 1..Len(ThreadPages(v)[k])} :
                     k \in 1..Len(ThreadPages(v))} : v \in KnownVideos}

\* <<video, thread id, reply id>> of every reply the service gives, embedded
\* in the thread item or on a page of the reply listing of the thread
ListedReplies ==
    UNION {{<< t[1], t[2], id >> :
              id \in {api_replies(ThreadItem(t[1], t[2]), t[1])[e].comment_id :
                        e \in 1..Len(api_replies(ThreadItem(t[1], t[2]), t[1]))}
                     \cup UNION {{ReplyPages(t[2])[k][i].id :
                                    i \in 1..Len(ReplyPages(t[2])[k])} :
                                   k \in 1..Len(ReplyPages(t[2]))}} :
             t \in ListedThreads}

\* what C23 says of one record of a collection of video v
WellFormedRecord(r, v) ==
    IF r.is_reply
    THEN /\ r.reply_count = 0
         /\ << v, r.parent_id, r.comment_id >> \in ListedReplies
         /\ r.reply_depth = 1
    ELSE /\ << v, r.comment_id, r.reply_count >> \in ListedThreads
         /\ r.parent_id = ""
         /\ r.reply_depth = 0

\* C23: a top-level record carries the totalReplyCount of its thread item as
\* reply_count, is_reply = false, an empty parent_id and reply_depth = 0; a
\* reply record carries reply_count = 0, is_reply = true, the id of its thread
\* as parent_id and reply_depth = 1. This holds for every record gathered
\* during a collection (the list and the reply walk in progress).
C23_RecordShape ==
    /\ \A i \in 1..Len(all_comments) :
          WellFormedRecord(all_comments[i], video_id)
    /\ \A i \in 1..Len(all_replies) :
          /\ all_replies[i].is_reply
          /\ WellFormedRecord(all_replies[i], video_id)

\* C23 witness: a returned list holding thread A with reply_count 3, and the
\* reply A3 that only the reply listing gives.
C23_Witness ==
    /\ pc = "returned"
    /\ \E i \in 1..Len(all_comments) :
          /\ all_comments[i].comment_id = "A"
          /\ all_comments[i].reply_count = 3
    /\ \E i \in 1..Len(all_comments) :
          /\ all_comments[i].comment_id = "A3"
          /\ all_comments[i].parent_id = "A"

\* the collection of the example video returned after exactly two successful
\* requests (the thread page and the reply listing of sB, walked to its end)
ScenarioRun ==
    /\ pc \in {"returned", "summarized"}
    /\ video_id = ScenarioVideo
    /\ ok_calls = 2
    /\ "sB" \in full_walks

\* C24: for the video with thread sA (3 embedded replies, totalReplyCount 3)
\* and thread sB (1 embedded reply, totalReplyCount 4, reply listing of 3 of
\* which sB1 is the embedded one) the returned list has exactly 8 records:
\* sA, its 3 replies, sB, its embedded reply and the 2 new replies.
C24_ScenarioEightRecords ==
    ScenarioRun =>
        /\ Len(all_comments) = 8
        /\ [i \in 1..Len(all_comments) |-> all_comments[i].comment_id]
             = << "sA", "sA1", "sA2", "sA3", "sB", "sB1", "sB2", "sB3" >>

\* C24 witness: such a collection has returned.
C24_Witness ==
    /\ ScenarioRun
    /\ pc = "returned"
    /\ last_call.endpoint = "comments"
    /\ last_call.target = "sB"

\* C25 as stated: analyze_comment_structure on the list of the example video
\* (sA with 3 replies, sB with its embedded reply and 2 new ones) reports
\* threads_with_replies = 2 and max_replies_per_thread = 4.
C25_ScenarioAnalysis ==
    (ScenarioRun /\ pc = "summarized") =>
        /\ analysis.threads_with_replies = 2
        /\ analysis.max_replies_per_thread = 4

\* C25 amended: on that list the analyzer reports threads_with_replies = 2
\* and max_replies_per_thread = 3, the 3 reply records each of sA and sB has.
C25_ScenarioAnalysisThree ==
    (ScenarioRun /\ pc = "summarized") =>
        /\ analysis.threads_with_replies = 2
        /\ analysis.max_replies_per_thread = 3

\* C25 witness: the 8 records of the example were analyzed.
C25_Witness ==
    /\ ScenarioRun
    /\ pc = "summarized"
    /\ analysis.total_comments = 8
    /\ analysis.replies = 6

\* C26: analyze_comment_structure on the empty list raises nothing and
\* returns the aggregate with every count 0, an empty reply_distribution and
\* most_replied_thread = None (the analyzer of comments.py returns its six
\* counts, all 0).
C26_EmptyListAllZero ==
    (an_by # "none" /\ an_comments = << >>) =>
        /\ analysis.exception = "none"
        /\ analysis.total_comments = 0
        /\ analysis.top_level_comments = 0
        /\ analysis.replies = 0
        /\ analysis.threads_with_replies = 0
        /\ analysis.max_replies_per_thread = 0
        /\ analysis.total_threads = 0
        /\ an_by = "YouTubeCommentCollector" =>
              /\ analysis.average_replies_per_thread = 0
              /\ DOMAIN analysis.reply_distribution = {}
              /\ analysis.most_replied_thread = NoThread
              /\ analysis.total_likes = 0
              /\ analysis.average_likes_per_comment = 0

\* C26 witness: the analyzer of the collector has run on the empty list.
C26_Witness ==
    /\ an_comments = << >>
    /\ an_by = "YouTubeCommentCollector"
    /\ an_calls = 1
    /\ analysis.total_comments = 0

ParentsIn(list) ==
    {list[i].parent_id : i \in {j \in 1..Len(list) : list[j].is_reply}}

\* the parents of a list with exactly k reply records
ParentsWith(list, k) == {p \in ParentsIn(list) : RepliesOf(list, p) = k}

\* C28: for any record list the analyzer reports threads_with_replies = the
\* number of distinct parent_id values among the reply records,
\* max_replies_per_thread = the largest number of reply records with one
\* parent_id (0 without replies), and reply_distribution maps k to the number
\* of parents with exactly k reply records (no entry where there is none).
C28_ReplyAggregates ==
    an_by # "none" =>
        /\ analysis.threads_with_replies = Cardinality(ParentsIn(an_comments))
        /\ \A p \in ParentsIn(an_comments) :
              RepliesOf(an_comments, p) <= analysis.max_replies_per_thread
        /\ \/ ParentsWith(an_comments, analysis.max_replies_per_thread) # {}
           \/ ParentsIn(an_comments) = {} /\ analysis.max_replies_per_thread = 0
        /\ an_by = "YouTubeCommentCollector" =>
              \A k \in 1..(Len(an_comments) + 1) :
                 IF ParentsWith(an_comments, k) = {}
                 THEN k \notin DOMAIN analysis.reply_distribution
                 ELSE /\ k \in DOMAIN analysis.reply_distribution
                      /\ analysis.reply_distribution[k]
                           = Cardinality(ParentsWith(an_comments, k))

\* C28 witness: a list in which one parent has 2 replies and two parents have
\* 1 reply each was analyzed.
C28_Witness ==
    /\ an_by = "YouTubeCommentCollector"
    /\ analysis.threads_with_replies = 3
    /\ analysis.max_replies_per_thread = 2
    /\ DOMAIN analysis.reply_distribution = {1, 2}
    /\ analysis.reply_distribution[1] = 2

\* the position of the first reply record of parent p in the list
FirstReplyOf(list, p) ==
    CHOOSE i \in 1..Len(list) :
        /\ list[i].is_reply /\ list[i].parent_id = p
        /\ \A j \in 1..(i - 1) : ~(list[j].is_reply /\ list[j].parent_id = p)

\* the parent with the most reply records, the one whose first reply comes
\* earliest among several with as many (for a list with reply records)
FirstMostReplied(list) ==
    LET most == CHOOSE k \in 1..Len(list) :
                    /\ ParentsWith(list, k) # {}
                    /\ \A p \in ParentsIn(list) : RepliesOf(list, p) <= k
    IN CHOOSE p \in ParentsWith(list, most) :
           \A q \in ParentsWith(list, most) :
               FirstReplyOf(list, p) <= FirstReplyOf(list, q)

\* the list holds a top-level record with this comment_id
HasTopLevel(list, id) ==
    \E i \in 1..Len(list) : ~list[i].is_reply /\ list[i].comment_id = id

\* C29 as stated: for a list with reply records the analyzer reports as
\* most_replied_thread the parent with the most reply records, with that
\* number as reply_count; of several parents with the most it is the one whose
\* first reply comes earliest in the list.
C29_MostRepliedThread ==
    (an_by = "YouTubeCommentCollector" /\ ParentsIn(an_comments) # {}) =>
        /\ analysis.most_replied_thread.comment_id = FirstMostReplied(an_comments)
        /\ analysis.most_replied_thread.reply_count
             = RepliesOf(an_comments, FirstMostReplied(an_comments))

\* C29 amended: that parent is reported when the list holds a top-level
\* record with its id; when it holds none, most_replied_thread is None (no
\* other parent is reported in its place).
C29_MostRepliedThreadIfListed ==
    (an_by = "YouTubeCommentCollector" /\ ParentsIn(an_comments) # {}) =>
        IF HasTopLevel(an_comments, FirstMostReplied(an_comments))
        THEN /\ analysis.most_replied_thread.comment_id
                  = FirstMostReplied(an_comments)
             /\ analysis.most_replied_thread.reply_count
                  = RepliesOf(an_comments, FirstMostReplied(an_comments))
        ELSE analysis.most_replied_thread = NoThread

\* C29 witness: parents A and B have one reply each, the reply to B comes
\* first, and B is reported.
C29_Witness ==
    /\ an_by = "YouTubeCommentCollector"
    /\ Len(an_comments) = 4
    /\ an_comments[1].comment_id = "B1"
    /\ an_comments[2].comment_id = "A1"
    /\ analysis.most_replied_thread.comment_id = "B"
    /\ analysis.most_replied_thread.reply_count = 1

\* C30 as stated: average_replies_per_thread (kept in hundredths) is the
\* number of reply records divided by the number of top-level records, it is
\* 0 when the list has no top-level record, and no call raises
\* ZeroDivisionError.
C30_AverageIsQuotient ==
    an_by = "YouTubeCommentCollector" =>
        /\ analysis.exception = "none"
        /\ IF analysis.top_level_comments = 0
           THEN analysis.average_replies_per_thread = 0
           ELSE analysis.average_replies_per_thread * analysis.top_level_comments
                  = 100 * analysis.replies

\* C30 amended: average_replies_per_thread is that quotient rounded to two
\* decimal places (the hundredth nearest to it), 0 when the list has no
\* top-level record, and no call raises ZeroDivisionError.
C30_AverageIsRoundedQuotient ==
    an_by = "YouTubeCommentCollector" =>
        /\ analysis.exception = "none"
        /\ analysis.top_level_comments = Len(top_level_of(an_comments))
        /\ analysis.replies = Len(replies_of(an_comments))
        /\ IF analysis.top_level_comments = 0
           THEN analysis.average_replies_per_thread = 0
           ELSE LET off == analysis.average_replies_per_thread
                             * analysis.top_level_comments
                           - 100 * analysis.replies
                IN /\ 2 * off <= analysis.top_level_comments
                   /\ 2 * off >= 0 - analysis.top_level_comments

\* C30 witness: one reply and three top-level records give 0.33.
C30_Witness ==
    /\ an_by = "YouTubeCommentCollector"
    /\ analysis.replies = 1
    /\ analysis.top_level_comments = 3
    /\ analysis.average_replies_per_thread = 33

\* ---------------------------------------------------------------------------
\* Rate limiting: _rate_limit of YouTubeCommentCollector and YouTubeAPIClient.
\* Time is counted in ticks of 0.05 s.

\* how far the clock is followed
MaxTicks == 6

\* config.rate_limit_delay, 0.1 s
rate_limit_delay == 2

\* everything but the clock and the rate limiters
not_rate_vars == << cfg_vars, collector_vars, last_rotation, wf_vars, memo,
                    client_vars, analyzer_vars, spins, req_log, kept_run >>

\* the argument of time.sleep in _rate_limit, 0 when it does not sleep
RateSleep(o) ==
    LET time_since_last == rate_now - last_call_time[o]
    IN IF time_since_last < rate_limit_delay
       THEN rate_limit_delay - time_since_last
       ELSE 0

\* last_issue after a remote call issued at time t by object o
Issued(t, o) ==
    [at |-> t, by |-> o,
     gap |-> IF last_issue.by = "none" THEN 0 ELSE t - last_issue.at,
     calls |-> IF last_issue.calls < 2 THEN last_issue.calls + 1 ELSE 2]

RateInit ==
    /\ env_keys = 1
    /\ api_count = 1
    /\ api_key = 1
    /\ quota_limit_per_day = MaxQuotaLimit
    /\ max_retries = MaxRetries
    /\ IdleCollector
    /\ IdleWorkflow
    /\ IdleClient
    /\ an_comments = << >>
    /\ analysis = NoAnalysis
    /\ an_by = "none"
    /\ an_calls = 0
    /\ IdleRate
    /\ spins = 0
    /\ req_log = NoLog
    /\ kept_run = NoRun

\* time passes between two statements
RateTick ==
    /\ rate_now < ProcessStart + MaxTicks
    /\ rate_now' = rate_now + 1
    /\ UNCHANGED << last_call_time, last_issue, not_rate_vars >>

\* YouTubeCommentCollector(config) or YouTubeAPIClient(config): the factory
\* builds a new object whenever a service is asked for
RateNewObject(o) ==
    /\ last_call_time[o] # 0
    /\ last_call_time' = [last_call_time EXCEPT ![o] = 0]
    /\ UNCHANGED << rate_now, last_issue, not_rate_vars >>

\* _rate_limit() followed by request.execute(): time.sleep returns after the
\* time asked for or later
RateCall(o) ==
    /\ \E late \in 0..1 :
          /\ late = 1 => RateSleep(o) > 0
          /\ rate_now' = rate_now + RateSleep(o) + late
    /\ rate_now' <= ProcessStart + MaxTicks
    /\ last_call_time' = [last_call_time EXCEPT ![o] = rate_now']
    /\ last_issue' = Issued(rate_now', o)
    /\ UNCHANGED not_rate_vars

RateNext ==
    \/ RateTick
    \/ \E o \in Callers : RateNewObject(o)
    \/ \E o \in Callers : RateCall(o)

RateSpec == RateInit /\ [][RateNext]_vars

\* C31: between any two consecutive remote calls of the process at least
\* rate_limit_delay elapses
C31_MinimumInterval ==
    last_issue.calls >= 2 => last_issue.gap >= rate_limit_delay

\* C32: a step of collect_all_comments (in particular one that follows the
\* retry of a thread page) appends no record whose comment_id is already in
\* the accumulated list
C32_RetryAppendsNothingTwice ==
    [][(/\ pc \in {"process_items", "fetch_replies"}
        /\ Len(all_comments') > Len(all_comments))
       => \A i \in (Len(all_comments) + 1)..Len(all_comments') :
             ~HasRecord(all_comments, all_comments'[i].comment_id)]_vars

\* C33: collect_all_comments never re-issues the same page request without
\* bound: an attempt that leaves the walk before the same thread page request
\* (same cursor) has counted against max_retries, so that the request is
\* issued at most max_retries times and the walk ends
C33_SamePageIsCounted ==
    [][(/\ pc = "fetch_page"
        /\ pc' = "fetch_page"
        /\ next_page_token' = next_page_token)
       => retry_count' > retry_count]_vars

\* ---------------------------------------------------------------------------
\* get_all_replies called on its own (it is a public method), for any
\* max_retries >= 0

\* how many passes without attempt are followed
MaxSpins == 2

\* the threads of video v1 a caller may ask the replies of
ReplyCallers ==
    { c \in (1..2) \X (1..2) :
        /\ c[1] <= Len(ThreadPages("v1"))
        /\ c[2] <= Len(Items("v1", c[1])) }

RepliesInit ==
    /\ env_keys \in 1..MaxKeys
    /\ api_count = 1
    /\ api_key = 1
    /\ quota_limit_per_day \in 1..MaxQuotaLimit
    /\ max_retries \in 0..MaxRetries
    /\ IdleCollector
    /\ IdleWorkflow
    /\ IdleClient
    /\ an_comments = << >>
    /\ analysis = NoAnalysis
    /\ an_by = "none"
    /\ an_calls = 0
    /\ IdleRate
    /\ spins = 0
    /\ req_log = NoLog
    /\ kept_run = NoRun

\* everything get_all_replies leaves alone
not_replies_vars == << wf_vars, memo, client_vars, analyzer_vars, rate_vars,
                       req_log, kept_run, env_keys, quota_limit_per_day,
                       max_retries, all_comments, next_page_token,
                       retry_count, full_walks >>

\* collector.get_all_replies(parent_id, video_id), lines 92-99
get_all_replies_Call ==
    /\ pc = "idle"
    /\ \E c \in ReplyCallers :
          /\ cur_page' = c[1]
          /\ item_idx' = c[2]
    /\ pc' = "replies_loop"
    /\ all_replies' = << >>
    /\ r_next_page_token' = NoToken
    /\ r_retry_count' = 0
    /\ spins' = 0
    /\ hist' = Hist(pc, "start", 0, 0, 0)
    /\ UNCHANGED << cfg_vars, youtube, quota_usage, video_id, last_call,
                    last_rotation, ok_calls, quota_fatal, not_replies_vars >>

\* lines 102-104 when the test of the retry loop fails: "while True" starts
\* over with retry_count = 0 and nothing else changed
get_all_replies_Spin ==
    /\ pc = "replies_loop"
    /\ ~(r_retry_count < max_retries)
    /\ spins < MaxSpins
    /\ spins' = spins + 1
    /\ r_retry_count' = 0
    /\ hist' = Hist(pc, "spin", 0, 0, 0)
    /\ UNCHANGED << cfg_vars, youtube, quota_usage, pc, video_id, cur_page,
                    item_idx, all_replies, r_next_page_token, last_call,
                    last_rotation, ok_calls, quota_fatal, not_replies_vars >>

\* get_all_replies returns list (or raises), leaving the loop
LeaveReplies(to, list) ==
    /\ pc' = to
    /\ all_replies' = list
    /\ UNCHANGED << r_next_page_token, r_retry_count >>

\* one pass of the retry loop of get_all_replies, lines 104-154
get_all_replies_Attempt ==
    /\ pc = "replies_loop"
    /\ r_retry_count < max_retries
    /\ \E outcome \in ReplyOutcomes :
        LET item == Items(video_id, cur_page)[item_idx]
            parent_id == item.id
            q == _check_quota(Self, 1)
            h == _handle_api_error(q.s, outcome)
            page == PageOf(r_next_page_token)
            call == [endpoint |-> "comments", target |-> parent_id,
                     token |-> r_next_page_token, client |-> q.s.youtube,
                     cfg_key |-> q.s.api_key,
                     usage_before |-> q.s.quota_usage,
                     limit |-> quota_limit_per_day,
                     embedded |-> Len(api_replies(item, video_id)),
                     total |-> item.snippet.totalReplyCount,
                     outcome |-> outcome]
            rot1 == IF q.rotated THEN Rotation(api_count, "pre_check")
                    ELSE last_rotation
            \* except Exception, lines 147-154
            Caught(event) ==
                /\ hist' = Hist(pc, event,
                                IF r_retry_count + 1 >= max_retries THEN 0
                                ELSE Sleep(r_retry_count), 0, 0)
                /\ IF r_retry_count + 1 >= max_retries
                   THEN LeaveReplies("replies_returned", all_replies)
                   ELSE /\ r_retry_count' = r_retry_count + 1
                        /\ UNCHANGED << pc, all_replies, r_next_page_token >>
        IN
        IF q.raised
        THEN /\ SetSelf(q.s)
             /\ Caught("pre_check")
             /\ last_rotation' = rot1
             /\ quota_fatal' = (quota_fatal \/ q.s.api_key = NoKey)
             /\ UNCHANGED << last_call, ok_calls >>
        ELSE
             /\ last_call' = call
             /\ IF outcome = "ok"
                THEN LET replies == all_replies
                                    \o reply_page_records(parent_id, page, video_id)
                         token == NextToken(ReplyPages(parent_id), page)
                     IN
                     /\ SetSelf([q.s EXCEPT !.quota_usage = Charge(@)])
                     /\ ok_calls' = (IF q.reset THEN 0 ELSE ok_calls) + 1
                     /\ last_rotation' = rot1
                     /\ hist' = Hist(pc, "ok", 0, 0, 0)
                     /\ UNCHANGED quota_fatal
                     /\ IF token = NoToken
                        THEN LeaveReplies("replies_returned", replies)
                        ELSE /\ all_replies' = replies
                             /\ r_next_page_token' = token
                             /\ r_retry_count' = 0
                             /\ UNCHANGED pc
                ELSE IF outcome = "transient"
                THEN /\ SetSelf(q.s)
                     /\ ok_calls' = (IF q.reset THEN 0 ELSE ok_calls)
                     /\ Caught("transient")
                     /\ last_rotation' = rot1
                     /\ UNCHANGED quota_fatal
                ELSE IF outcome = "notFound"
                THEN /\ SetSelf(q.s)
                     /\ ok_calls' = (IF q.reset THEN 0 ELSE ok_calls)
                     /\ LeaveReplies("replies_returned",
                                     NotFoundReplies(all_replies))
                     /\ hist' = Hist(pc, "notFound", 0, 0, 0)
                     /\ last_rotation' = rot1
                     /\ UNCHANGED quota_fatal
                ELSE /\ SetSelf(h.s)
                     /\ ok_calls' = (IF q.reset \/ h.reset THEN 0 ELSE ok_calls)
                     /\ last_rotation' =
                          (IF h.rotated
                           THEN Rotation(q.s.api_count, "api_error") ELSE rot1)
                     /\ quota_fatal' =
                          (quota_fatal \/ (h.raised /\ h.s.api_key = NoKey))
                     /\ hist' = Hist(pc, outcome, 0, 0, 0)
                     /\ IF h.raised
                        THEN LeaveReplies("replies_raised", all_replies)
                        ELSE IF h.ret
                        THEN /\ r_retry_count' = r_retry_count + 1
                             /\ UNCHANGED << pc, all_replies,
                                             r_next_page_token >>
                        ELSE LeaveReplies("replies_returned", all_replies)
    /\ api_count' <= MaxApiCount
    /\ UNCHANGED << video_id, cur_page, item_idx, spins, not_replies_vars >>

\* the caller takes the list (or the exception)
get_all_replies_Done ==
    /\ pc \in {"replies_returned", "replies_raised"}
    /\ pc' = "idle"
    /\ cur_page' = 1
    /\ item_idx' = 1
    /\ all_replies' = << >>
    /\ r_next_page_token' = NoToken
    /\ r_retry_count' = 0
    /\ hist' = NoHist
    /\ UNCHANGED << cfg_vars, youtube, quota_usage, video_id, last_call,
                    last_rotation, ok_calls, quota_fatal, spins,
                    not_replies_vars >>

RepliesNext ==
    \/ get_all_replies_Call
    \/ get_all_replies_Spin
    \/ get_all_replies_Attempt
    \/ get_all_replies_Done

RepliesSpec == RepliesInit /\ [][RepliesNext]_vars

\* C34: get_all_replies ends for every max_retries >= 0: no pass of its outer
\* loop goes by without an attempt on the reply endpoint (an attempt moves the
\* cursor over the finitely many pages, counts against max_retries or ends
\* the call; a pass without attempt changes nothing and repeats forever)
C34_EveryPassAttempts == spins = 0

\* C35: a quota-exhaustion event advances api_count by exactly one, and no
\* configured credential index is left behind without a client having been
\* built for it: when api_count moves on from a configured index, self.youtube
\* is the client of that index
C35_NoCredentialSkipped ==
    [][api_count' # api_count =>
          /\ api_count' = api_count + 1
          /\ Getenv(api_count) # NoKey => youtube = Getenv(api_count)]_vars

\* C36: an attempt of YouTubeCommentCollector whose execute() fails leaves
\* quota_usage, the cursor and the accumulated list as they were: on a thread
\* page next_page_token and all_comments, on a reply page the cursor and the
\* list of get_all_replies; when the failure ends get_all_replies, the caller
\* adds exactly the replies accumulated before the attempt (or nothing, when
\* an exception leaves it), and the thread cursor moves only if the item loop
\* of the page is over
C36_FailedAttemptFrame ==
    [][(/\ pc \in {"fetch_page", "fetch_replies"}
        /\ last_call' # last_call
        /\ hist'.event \in {"transient", "quotaExceeded", "forbidden",
                            "notFound"}) =>
          /\ quota_usage' = quota_usage
          /\ pc = "fetch_page" =>
                (next_page_token' = next_page_token
                 /\ all_comments' = all_comments)
          /\ pc = "fetch_replies" =>
                /\ all_replies' = all_replies
                /\ r_next_page_token' = r_next_page_token
                /\ all_comments' \in
                     { all_comments,
                       all_comments \o
                         new_replies(all_replies,
                                     api_replies(Items(video_id, cur_page)[item_idx],
                                                 video_id)) }
                /\ next_page_token' # next_page_token =>
                     (/\ item_idx = Len(Items(video_id, cur_page))
                      /\ next_page_token' =
                           NextToken(ThreadPages(video_id), cur_page))]_vars

\* C36 witness: the request for the second thread page failed, after records
\* were accumulated and quota was used, and is about to be issued again
C36_Witness ==
    /\ pc = "fetch_page"
    /\ hist.at = "fetch_page"
    /\ hist.event = "transient"
    /\ last_call.outcome = "transient"
    /\ next_page_token = 2
    /\ quota_usage > 0
    /\ Len(all_comments) > 0

\* the parent of the reply at position i is a top-level record at an earlier
\* position of the list
ParentEarlier(list, i) ==
    \E j \in 1..(i - 1) :
        /\ ~list[j].is_reply
        /\ list[j].comment_id = list[i].parent_id

\* C37: in every returned list each reply record's parent_id is the
\* comment_id of a top-level record that appears earlier in the list,
\* whatever failures occurred during the walk
C37_ParentBeforeReplies ==
    pc = "returned" =>
        \A i \in 1..Len(all_comments) :
            all_comments[i].is_reply => ParentEarlier(all_comments, i)

\* C37 witness: a list returned by collect_all_comments after a thread page
\* was fetched twice (records repeated), holding embedded replies and
\* replies of the standalone walk
C37_Witness ==
    /\ pc = "returned"
    /\ hist.at \in {"fetch_page", "process_items", "fetch_replies"}
    /\ ~NoDuplicateIds(all_comments)
    /\ HasRecord(all_comments, "A1")
    /\ HasRecord(all_comments, "A3")
    /\ HasRecord(all_comments, "C1")

\* C39: process_single_video returns a result dict carrying a 'success' key
\* on every path (normal completion with and without include_comments, HTTP
\* errors other than quotaExceeded, any other exception)
C39_ResultCarriesSuccess ==
    wf_pc = "done" => wf_result \in {"success", "failure"}

\* ---------------------------------------------------------------------------
\* The two implementations side by side on failure-free runs: only the steps
\* whose request is answered (and whose pre-check passes) are taken, the
\* requests are recorded, and a finished collection is kept for comparison
\* with the next one.

\* the implementation whose collection is in progress or has just returned
RanBy ==
    IF hist.at \in CCC_Steps \/ pc \in CCC_Steps
    THEN "CompleteCommentCollector" ELSE "YouTubeCommentCollector"

\* a returned list without the field only YouTubeCommentCollector writes
Comparable(list) ==
    [i \in 1..Len(list) |->
        [f \in DOMAIN list[i] \ {"text_original"} |-> list[i][f]]]

PairInit ==
    /\ env_keys \in 1..MaxKeys
    /\ api_count = 1
    /\ api_key = 1
    /\ quota_limit_per_day \in 1..MaxQuotaLimit
    /\ max_retries \in 0..MaxRetries
    /\ IdleCollector
    /\ IdleWorkflow
    /\ IdleClient
    /\ an_comments = << >>
    /\ analysis = NoAnalysis
    /\ an_by = "none"
    /\ an_calls = 0
    /\ IdleRate
    /\ spins = 0
    /\ req_log = [on |-> TRUE, reqs |-> << >>]
    /\ kept_run = NoRun

\* the steps of the two collectors in which nothing fails
CleanStep == hist'.event \in {"start", "ok", "item"}

\* the caller takes the returned list; the collection is kept
PairFinish ==
    /\ pc = "returned"
    /\ kept_run' = [kept |-> TRUE, by |-> RanBy, video |-> video_id,
                    reqs |-> req_log.reqs, list |-> all_comments]
    /\ req_log' = [req_log EXCEPT !.reqs = << >>]
    /\ all_comments' = << >>
    /\ SetWalk([pc |-> "idle", next_page_token |-> NoToken, retry_count |-> 0,
                cur_page |-> 1, item_idx |-> 1])
    /\ all_replies' = << >>
    /\ r_next_page_token' = NoToken
    /\ r_retry_count' = 0
    /\ full_walks' = {}
    /\ video_id' = "v1"
    /\ hist' = NoHist
    /\ UNCHANGED << cfg_vars, youtube, quota_usage, last_call, last_rotation,
                    ok_calls, quota_fatal, wf_vars, memo, client_vars,
                    analyzer_vars, rate_vars, spins >>

PairNext ==
    \/ NewCollector
    \/ StartCollect /\ CleanStep
    \/ FetchThreadPage /\ CleanStep
    \/ ProcessItem /\ CleanStep
    \/ FetchReplyPage /\ CleanStep
    \/ CCC_StartCollect /\ CleanStep
    \/ CCC_FetchThreadPage /\ CleanStep
    \/ CCC_ProcessItem /\ CleanStep
    \/ CCC_FetchReplyPage /\ CleanStep
    \/ PairFinish

PairSpec == PairInit /\ [][PairNext]_vars

\* a returned collection and the kept collection of the other implementation
\* for the same video
OtherKept ==
    /\ pc = "returned"
    /\ kept_run.kept
    /\ kept_run.video = video_id
    /\ kept_run.by # RanBy

\* the two collections issued the same sequence of requests and returned the
\* same records in the same order (text_original ignored)
SameRun ==
    /\ req_log.reqs = kept_run.reqs
    /\ Comparable(all_comments) = Comparable(kept_run.list)

\* C38 as stated: on failure-free runs with the quota never exhausted, a
\* collection of one implementation and the kept collection of the other for
\* the same video issued the same sequence of requests and returned the same
\* records in the same order (text_original ignored)
C38_CleanRunsAgree == OtherKept => SameRun

\* C38 amended: the two implementations agree on failure-free runs with the
\* quota never exhausted whenever config.max_retries is at least 1 (with
\* max_retries = 0 collect_all_comments makes no request and returns an
\* empty list, while CompleteCommentCollector knows no max_retries)
C38_CleanRunsAgreeWithAttempts ==
    (OtherKept /\ max_retries >= 1) => SameRun

\* C38 witness: collect_all_comments returned for v1 (two thread pages, a
\* reply walk of two pages) after collect_complete_comments was kept for v1
C38_Witness ==
    /\ pc = "returned"
    /\ RanBy = "YouTubeCommentCollector"
    /\ kept_run.kept
    /\ kept_run.by = "CompleteCommentCollector"
    /\ kept_run.video = "v1"
    /\ video_id = "v1"
    /\ max_retries >= 1
    /\ Len(req_log.reqs) = 4
    /\ Len(all_comments) = 7

====
